---- MODULE Spec2Model ----
(***************************************************************************)
(* Lead validation and quality pipeline of the unified Zillow backend:     *)
(*   - LeadQualityService  (src/src/services/leadQualityService.js)        *)
(*   - VisualInspector     (src/unnamed/part_003)                          *)
(*   - batchLeadService    (src/src/services/batchLeadService.js)          *)
(*   - the /search and /validate-visual routes that share the cache, the   *)
(*     /search-and-analyze-* routes and the /market-analyzer route         *)
(*     (src/src/routes/properties.js)                                      *)
(*   - CacheService        (src/docs/FINAL_SUMMARY.md)                     *)
(*                                                                         *)
(* JavaScript values are encoded as follows.  A scalar field that may be   *)
(* missing holds the string U ("undefined"); booleans are the strings      *)
(* "true" / "false"; a missing number is NoNumber.  An object whose        *)
(* optional property is absent is a record without that field.  A message  *)
(* built by string interpolation is the sequence of its fragments, so that *)
(* "embeds" is "has as a contiguous part".                                 *)
(***************************************************************************)
EXTENDS Integers, Sequences, FiniteSets, TLC

VARIABLES
    \* ---- quality reconciler (generateQualityReport) ----
    qin,        \* the arguments of the pending generateQualityReport call
    report,     \* the report it returned
    \* ---- vision verifier (verify_property_visually) ----
    vin,        \* credentials, arguments and upstream responses of one call
    vout,       \* its outcome
    \* ---- the server process: cache, batch lead service and routes ----
    world,      \* the deployment: credentials and the listings provider's data
    cache,      \* cacheService: key -> [value, expires]
    now,        \* the clock, in seconds
    batch,      \* the getBatchLeads call in progress and its locals
    rv,         \* the POST /validate-visual request in progress
    sr,         \* the GET /search request in progress
    sa,         \* the POST /search-and-analyze-* request in progress
    ma,         \* the POST /market-analyzer request in progress
    es          \* the searchWithExpansion call in progress and its locals

qvars == <<qin, report>>
vvars == <<vin, vout>>
bvars == <<world, cache, now, batch, rv, sr, sa, ma, es>>
vars == <<qin, report, vin, vout, world, cache, now, batch, rv, sr, sa, ma, es>>

(***************************************************************************)
(* JavaScript value helpers                                                *)
(***************************************************************************)
U == "undefined"
NoNumber == -1000

\* truthiness of a string-encoded scalar
Truthy(v) == v \notin {U, "false", "null", ""}

\* v || d  for string-encoded scalars
OrElse(v, d) == IF Truthy(v) THEN v ELSE d

\* n || 0  for numbers (a missing number and 0 are both falsy)
NumOr0(n) == IF n = NoNumber THEN 0 ELSE n

Abs(n) == IF n < 0 THEN -n ELSE n

LeadTypes == {"PoolLeadGen", "BackyardBoost"}

\* the static-map URL built from the coordinates (part_003:286-305)
ImageUrl(latitude, longitude) == <<"staticmap", latitude, longitude>>

\* the empty object {} seen as an analysis
EmptyAnalysis ==
    [has_pool |-> U, pool_type |-> U, is_empty_backyard |-> U,
     is_underdeveloped |-> U, surface_type |-> U, estimated_free_area |-> U,
     development_potential |-> U, confidence |-> NoNumber]

(***************************************************************************)
(* LeadQualityService                                                      *)
(***************************************************************************)
NoDiscrepancy ==
    [detected |-> FALSE, type |-> "null", details |-> <<>>,
     confidenceDiff |-> 0, severity |-> "none"]

PoolSeverityMutant(visualConfidence) ==
    IF visualConfidence > 80 THEN "major"
    ELSE IF visualConfidence > 60 THEN "minor"
    ELSE "none"

\* leadQualityService.js:58-63
PoolSeverity(visualConfidence) ==
    IF visualConfidence >= 80 THEN "major"
    ELSE IF visualConfidence >= 60 THEN "minor"
    ELSE "none"

\* a comparison that does not look at the presence of the pool
comparePoolDataSkipsPresence(zillowData, visualAnalysis, discrepancy) ==
    [discrepancy EXCEPT !.confidenceDiff = Abs(NumOr0(visualAnalysis.confidence) - 50)]

comparePoolData(zillowData, visualAnalysis, discrepancy) ==
    LET zillowHasPool == OrElse(zillowData.has_pool, "false")
        visualHasPool == OrElse(visualAnalysis.has_pool, "false")
        visualConfidence == NumOr0(visualAnalysis.confidence)
        d1 == IF zillowHasPool # visualHasPool
              THEN [discrepancy EXCEPT
                      !.detected = TRUE,
                      !.type = "pool_mismatch",
                      !.details = Append(@, [field |-> "has_pool",
                                             zillowValue |-> zillowHasPool,
                                             visualValue |-> visualHasPool,
                                             visualConfidence |-> visualConfidence]),
                      !.severity = LET s == PoolSeverity(visualConfidence)
                                   IN IF s = "none" THEN @ ELSE s]
              ELSE discrepancy
        zillowPoolType == OrElse(zillowData.pool_type, "null")
        visualPoolType == OrElse(visualAnalysis.pool_type, "null")
        d2 == IF /\ Truthy(zillowHasPool) /\ Truthy(visualHasPool)
                 /\ Truthy(zillowPoolType) /\ Truthy(visualPoolType)
                 /\ zillowPoolType # visualPoolType
              THEN [d1 EXCEPT
                      !.detected = TRUE,
                      !.type = IF Truthy(@) THEN @ ELSE "pool_type_mismatch",
                      !.details = Append(@, [field |-> "pool_type",
                                             zillowValue |-> zillowPoolType,
                                             visualValue |-> visualPoolType,
                                             visualConfidence |-> visualConfidence])]
              ELSE d1
    IN [d2 EXCEPT !.confidenceDiff = Abs(visualConfidence - 50)]

SurfaceTypesDifferMutant(zillowData, visualAnalysis) ==
    /\ Truthy(zillowData.surface_type)
    /\ zillowData.surface_type # visualAnalysis.surface_type

\* leadQualityService.js:130-131
SurfaceTypesDiffer(zillowData, visualAnalysis) ==
    /\ Truthy(zillowData.surface_type)
    /\ Truthy(visualAnalysis.surface_type)
    /\ zillowData.surface_type # visualAnalysis.surface_type

compareBackyardData(zillowData, visualAnalysis, discrepancy) ==
    LET visualConfidence == NumOr0(visualAnalysis.confidence)
        visualFreeArea == OrElse(visualAnalysis.estimated_free_area, "low")
        isUnderdeveloped == OrElse(visualAnalysis.is_underdeveloped, "false")
        developmentPotential == OrElse(visualAnalysis.development_potential, "low")
        zillowLotSize == OrElse(zillowData.lot_size, "null")
        zillowHasBackyard == zillowData.has_backyard # "false"
        d1 == IF zillowHasBackyard /\ visualFreeArea = "low" /\ visualConfidence >= 90
              THEN [discrepancy EXCEPT
                      !.detected = TRUE,
                      !.type = "backyard_size_mismatch",
                      !.details = Append(@, [field |-> "estimated_free_area",
                                             zillowValue |-> IF Truthy(zillowLotSize)
                                                             THEN "large" ELSE "unknown",
                                             visualValue |-> visualFreeArea,
                                             visualConfidence |-> visualConfidence]),
                      !.severity = "major"]
              ELSE discrepancy
        d2 == IF SurfaceTypesDiffer(zillowData, visualAnalysis)
              THEN [d1 EXCEPT
                      !.detected = TRUE,
                      !.type = IF Truthy(@) THEN @ ELSE "surface_type_mismatch",
                      !.details = Append(@, [field |-> "surface_type",
                                             zillowValue |-> zillowData.surface_type,
                                             visualValue |-> visualAnalysis.surface_type,
                                             visualConfidence |-> visualConfidence]),
                      !.severity = "minor"]
              ELSE d1
    IN IF Truthy(isUnderdeveloped) /\ developmentPotential = "high"
       THEN discrepancy
       ELSE [d2 EXCEPT !.confidenceDiff = Abs(visualConfidence - 50)]

\* zillowData and visualAnalysis are objects at every call site, so the
\* "!zillowData || !visualAnalysis" early return is never taken
compareZillowWithVisual(zillowData, visualAnalysis, leadType) ==
    IF leadType = "PoolLeadGen"
    THEN comparePoolData(zillowData, visualAnalysis, NoDiscrepancy)
    ELSE IF leadType = "BackyardBoost"
    THEN compareBackyardData(zillowData, visualAnalysis, NoDiscrepancy)
    ELSE NoDiscrepancy

\* a null or undefined visualAnalysis, as opposed to the object {}
NullAnalysis == [null |-> TRUE]
IsNull(visualAnalysis) == "null" \in DOMAIN visualAnalysis

ConfirmsWithHighConfidenceMutant(visualConfidence) == visualConfidence > 80

\* leadQualityService.js:218
ConfirmsWithHighConfidence(visualConfidence) == visualConfidence >= 80

BackyardBonusMutant(ideal, qualityScore) == qualityScore

\* leadQualityService.js:274-278: an underdeveloped yard with high potential
\* upgrades medium to high
BackyardBonus(ideal, qualityScore) ==
    IF ideal /\ qualityScore = "medium" THEN "high" ELSE qualityScore

calculateLeadQuality(zillowData, visualAnalysis, discrepancy, leadType) ==
    IF IsNull(visualAnalysis)
    THEN [qualityScore |-> "low", confidence |-> 0,
          reasoning |-> << <<"Visual analysis failed or unavailable">> >>]
    ELSE
    LET visualConfidence == NumOr0(visualAnalysis.confidence)
        confidence == visualConfidence
        base ==
            IF ~discrepancy.detected
            THEN IF ConfirmsWithHighConfidence(visualConfidence)
                 THEN [qualityScore |-> "high",
                       reasoning |-> << <<"Visual validation confirms Zillow data with high confidence">> >>]
                 ELSE IF visualConfidence >= 60
                 THEN [qualityScore |-> "medium",
                       reasoning |-> << <<"Visual validation confirms Zillow data with moderate confidence">> >>]
                 ELSE IF visualConfidence >= 50
                 THEN [qualityScore |-> "medium",
                       reasoning |-> << <<"Visual validation has moderate confidence">> >>]
                 ELSE [qualityScore |-> "medium",
                       reasoning |-> << <<"Visual validation has low confidence but no contradictions">> >>]
            ELSE IF discrepancy.severity = "major"
                 THEN [qualityScore |-> "low",
                       reasoning |-> << <<"Major discrepancy detected: ", discrepancy.type>>,
                                       <<"Lead requires manual review before use">> >>]
                 ELSE IF discrepancy.severity = "minor"
                 THEN IF leadType = "BackyardBoost"
                      THEN [qualityScore |-> "medium",
                            reasoning |-> << <<"Minor discrepancy detected: ", discrepancy.type>>,
                                            <<"Lead still viable for BackyardBoost opportunities">> >>]
                      ELSE [qualityScore |-> "medium",
                            reasoning |-> << <<"Minor discrepancy detected: ", discrepancy.type>>,
                                            <<"Lead quality reduced due to data inconsistency">> >>]
                 ELSE [qualityScore |-> "medium", reasoning |-> <<>>]
        isUnderdeveloped == OrElse(visualAnalysis.is_underdeveloped, "false")
        developmentPotential == OrElse(visualAnalysis.development_potential, "low")
        ideal == Truthy(isUnderdeveloped) /\ developmentPotential = "high"
        typed ==
            IF leadType = "PoolLeadGen"
            THEN [base EXCEPT !.reasoning =
                    IF Truthy(visualAnalysis.has_pool) /\ visualConfidence >= 85
                    THEN Append(@, <<"Pool presence confirmed with high confidence">>)
                    ELSE @]
            ELSE IF leadType = "BackyardBoost"
            THEN LET r1 == IF ideal
                           THEN Append(base.reasoning,
                                       <<"Underdeveloped backyard with high development potential">>)
                           ELSE base.reasoning
                     q1 == BackyardBonus(ideal, base.qualityScore)
                     r2 == IF Truthy(visualAnalysis.is_empty_backyard) /\ visualConfidence >= 75
                           THEN Append(r1, <<"Empty backyard confirmed - good opportunity for development">>)
                           ELSE r1
                 IN [qualityScore |-> q1, reasoning |-> r2]
            ELSE base
    IN [qualityScore |-> typed.qualityScore,
        confidence |-> confidence,
        reasoning |-> typed.reasoning]

ApproveMsg == "APPROVE - Lead meets quality standards"
ReviewMsg == "REVIEW - Major discrepancies detected, manual review recommended"
RejectMsg == "REJECT - Lead quality too low, major discrepancies detected"

\* a mapping that sends a low score with a major discrepancy to review
getRecommendationReviewsLow(qualityScore, discrepancy) ==
    IF qualityScore = "high" THEN ApproveMsg
    ELSE IF discrepancy.detected /\ discrepancy.severity = "major" THEN ReviewMsg
    ELSE IF qualityScore = "medium" THEN ApproveMsg
    ELSE RejectMsg

getRecommendationNeverReviews(qualityScore, discrepancy) ==
    IF qualityScore = "high" THEN ApproveMsg
    ELSE IF qualityScore = "medium" THEN ApproveMsg
    ELSE RejectMsg

getRecommendationMutant(qualityScore, discrepancy) ==
    IF qualityScore = "high" THEN ApproveMsg
    ELSE IF qualityScore = "medium"
    THEN IF discrepancy.detected /\ discrepancy.severity = "major"
         THEN ReviewMsg ELSE ApproveMsg
    ELSE ApproveMsg

getRecommendation(qualityScore, discrepancy) ==
    IF qualityScore = "high" THEN ApproveMsg
    ELSE IF qualityScore = "medium"
    THEN IF discrepancy.detected /\ discrepancy.severity = "major"
         THEN ReviewMsg ELSE ApproveMsg
    ELSE RejectMsg

flagLeadDiscrepancy(leadId, discrepancyType, evidence) ==
    [leadId |-> leadId,
     flagType |-> discrepancyType,
     evidence |-> evidence,
     status |-> "flagged",
     requiresReview |-> TRUE]

NeedsFlagMutant(discrepancy) ==
    discrepancy.detected /\ discrepancy.severity # "none"

\* leadQualityService.js:345
NeedsFlag(discrepancy) ==
    discrepancy.detected /\ discrepancy.severity = "major"

\* visualValidation is an object with an optional analysis property
generateQualityReport(leadId, zillowData, visualValidation, leadType) ==
    LET visualAnalysis == IF "analysis" \in DOMAIN visualValidation
                          THEN visualValidation.analysis ELSE EmptyAnalysis
        satelliteImageUrl == IF "satelliteImageUrl" \in DOMAIN visualValidation
                             THEN visualValidation.satelliteImageUrl ELSE "null"
        discrepancy == compareZillowWithVisual(zillowData, visualAnalysis, leadType)
        qualityAssessment == calculateLeadQuality(zillowData, visualAnalysis, discrepancy, leadType)
        rep == [leadId |-> leadId,
                leadType |-> leadType,
                qualityScore |-> qualityAssessment.qualityScore,
                confidence |-> qualityAssessment.confidence,
                reasoning |-> qualityAssessment.reasoning,
                discrepancy |-> [detected |-> discrepancy.detected,
                                 type |-> discrepancy.type,
                                 severity |-> discrepancy.severity,
                                 details |-> discrepancy.details],
                recommendation |-> getRecommendation(qualityAssessment.qualityScore, discrepancy)]
        flag == flagLeadDiscrepancy(leadId, discrepancy.type,
                    [satelliteImageUrl |-> satelliteImageUrl,
                     discrepancyDetails |-> discrepancy.details,
                     visualConfidence |-> NumOr0(visualAnalysis.confidence),
                     leadType |-> leadType,
                     severity |-> discrepancy.severity])
    IN IF NeedsFlag(discrepancy)
       THEN [f \in DOMAIN rep \cup {"flag"} |-> IF f = "flag" THEN flag ELSE rep[f]]
       ELSE rep

(***************************************************************************)
(* VisualInspector                                                         *)
(*                                                                         *)
(* The upstream services are the inputs of one verification: the imagery   *)
(* provider's answer and the answers the vision providers give, in the     *)
(* order in which they are contacted during the call.  An answer is either *)
(* a thrown transport/auth error or a text; a text either holds a JSON     *)
(* object or not.                                                          *)
(***************************************************************************)
Fail(message) == [ok |-> FALSE, message |-> message]

TransportError(message) == [kind |-> "error", message |-> message]
TextResponse(hasJson, obj) == [kind |-> "text", json |-> hasJson, obj |-> obj]

IsBoolean(v) == v \in {"true", "false"}

ConfidenceInvalidMutant(c) == c = NoNumber \/ c < 0

\* part_003:625 and 641
ConfidenceInvalid(c) == c = NoNumber \/ c < 0 \/ c > 100

FreeAreaValues == {"high", "medium", "low"}

\* the first failed check of parseAnalysisResponse, "" when all pass
ParseError(responseText, leadType) ==
    IF ~responseText.json THEN "No JSON found in LLM response"
    ELSE LET analysis == responseText.obj IN
         IF leadType = "PoolLeadGen"
         THEN IF ~IsBoolean(analysis.has_pool) THEN "Invalid has_pool field in response"
              ELSE IF ConfidenceInvalid(analysis.confidence)
              THEN "Invalid confidence score in response"
              ELSE ""
         ELSE IF leadType = "BackyardBoost"
         THEN IF ~IsBoolean(analysis.is_empty_backyard)
              THEN "Invalid is_empty_backyard field in response"
              ELSE IF ~IsBoolean(analysis.is_underdeveloped)
              THEN "Invalid is_underdeveloped field in response"
              ELSE IF analysis.estimated_free_area \notin FreeAreaValues
              THEN "Invalid estimated_free_area in response"
              ELSE IF analysis.development_potential \notin FreeAreaValues
              THEN "Invalid development_potential in response"
              ELSE IF ConfidenceInvalid(analysis.confidence)
              THEN "Invalid confidence score in response"
              ELSE ""
         ELSE ""

parseAnalysisResponse(responseText, leadType) ==
    LET e == ParseError(responseText, leadType) IN
    IF e = "" THEN [ok |-> TRUE, analysis |-> responseText.obj]
    ELSE Fail(<<"Failed to parse LLM analysis: ", e>>)

LeadTypeError == <<"Lead type must be either PoolLeadGen or BackyardBoost">>

\* one entry of the trace of a verification: the provider function that was
\* entered, whether its HTTP request was sent, and how the attempt ended
Attempt(provider, contacted, outcome) ==
    [provider |-> provider, contacted |-> contacted, outcome |-> outcome]

\* the request to a provider that answered with response r
Contact(provider, r, leadType) ==
    IF r.kind = "error"
    THEN [res |-> Fail(r.message), att |-> Attempt(provider, TRUE, "transport")]
    ELSE LET parsed == parseAnalysisResponse(r, leadType) IN
         [res |-> parsed,
          att |-> Attempt(provider, TRUE, IF parsed.ok THEN "ok" ELSE "malformed")]

\* wrap the error thrown inside a provider function (its catch block)
Rethrow(prefix, c) ==
    IF c.res.ok THEN c ELSE [c EXCEPT !.res = Fail(<<prefix>> \o c.res.message)]

\* r is the answer Groq gives if it is contacted
analyzePropertyWithGroq(cfg, leadType, r) ==
    Rethrow("Failed to analyze image with Groq: ",
        IF ~cfg.groqApiKey
        THEN [res |-> Fail(<<"GROQ_API_KEY is not configured">>),
              att |-> Attempt("Groq", FALSE, "config")]
        ELSE IF leadType \notin LeadTypes
        THEN [res |-> Fail(LeadTypeError), att |-> Attempt("Groq", FALSE, "input")]
        ELSE Contact("Groq", r, leadType))

\* imageFetch is the outcome of fetchImageAsBase64, r the answer of Gemini
analyzePropertyWithGemini(cfg, leadType, imageFetch, r) ==
    Rethrow("Failed to analyze image with Gemini: ",
        IF ~cfg.geminiApiKey
        THEN [res |-> Fail(<<"GEMINI_API_KEY is not configured">>),
              att |-> Attempt("Gemini", FALSE, "config")]
        ELSE IF leadType \notin LeadTypes
        THEN [res |-> Fail(LeadTypeError), att |-> Attempt("Gemini", FALSE, "input")]
        ELSE IF imageFetch # "ok"
        THEN [res |-> Fail(<<"Failed to fetch image: ", "Network Error">>),
              att |-> Attempt("Gemini", FALSE, "transport")]
        ELSE Contact("Gemini", r, leadType))

AllProvidersPrefix == "Failed to analyze image with all providers (OpenAI, Groq, Gemini): "

\* the k-th answer of the vision providers, in contact order
Answer(env, k) == env.answers[k]

Contacts(trace) == SelectSeq(trace, LAMBDA a : a.contacted)

CatchesMutant(att) == att.outcome # "malformed"

\* part_003:532, 538, 544: the catch blocks take every error thrown in
\* their try block, whatever its cause
Catches(att) == TRUE

analyzePropertyWithLLM(cfg, leadType, env) ==
    LET \* the try block; without an OpenAI credential its body is a call of
        \* analyzePropertyWithGroq
        primary ==
            IF ~cfg.openaiApiKey
            THEN analyzePropertyWithGroq(cfg, leadType, Answer(env, 1))
            ELSE IF leadType \notin LeadTypes
            THEN [res |-> Fail(LeadTypeError), att |-> Attempt("OpenAI", FALSE, "input")]
            ELSE Contact("OpenAI", Answer(env, 1), leadType)
        t1 == <<primary.att>>
        \* the catch block: Groq fallback, then Gemini fallback
        groq == analyzePropertyWithGroq(cfg, leadType,
                    Answer(env, Len(Contacts(t1)) + 1))
        t2 == Append(t1, groq.att)
        gemini == analyzePropertyWithGemini(cfg, leadType, env.imageFetch,
                    Answer(env, Len(Contacts(t2)) + 1))
        t3 == Append(t2, gemini.att)
    IN IF primary.res.ok \/ ~Catches(primary.att)
       THEN [res |-> primary.res, trace |-> t1]
       ELSE IF groq.res.ok \/ ~Catches(groq.att)
       THEN [res |-> groq.res, trace |-> t2]
       ELSE IF gemini.res.ok \/ ~Catches(gemini.att)
       THEN [res |-> gemini.res, trace |-> t3]
       ELSE [res |-> Fail(<<AllProvidersPrefix>> \o primary.res.message), trace |-> t3]

getGoogleMapsStaticImage(cfg, latitude, longitude, env) ==
    LET inner ==
            IF ~cfg.googleMapsApiKey THEN Fail(<<"GOOGLE_MAPS_API_KEY is not configured">>)
            ELSE IF latitude = NoNumber \/ longitude = NoNumber
            THEN Fail(<<"Latitude and longitude must be numbers">>)
            ELSE IF env.image # "ok" THEN Fail(<<"Network Error">>)
            ELSE [ok |-> TRUE, imageUrl |-> ImageUrl(latitude, longitude)]
    IN IF inner.ok THEN inner
       ELSE Fail(<<"Failed to fetch satellite image: ">> \o inner.message)

verify_property_visually(cfg, latitude, longitude, leadType, env, timestamp) ==
    LET image == getGoogleMapsStaticImage(cfg, latitude, longitude, env)
        llm == analyzePropertyWithLLM(cfg, leadType, env)
    IN IF ~image.ok
       THEN [ok |-> FALSE,
             message |-> <<"Visual property verification failed: ">> \o image.message,
             trace |-> <<>>]
       ELSE IF ~llm.res.ok
       THEN [ok |-> FALSE,
             message |-> <<"Visual property verification failed: ">> \o llm.res.message,
             trace |-> llm.trace]
       ELSE [ok |-> TRUE,
             validation |-> [leadType |-> leadType,
                             satelliteImageUrl |-> image.imageUrl,
                             analysis |-> llm.res.analysis,
                             timestamp |-> timestamp],
             trace |-> llm.trace]

(***************************************************************************)
(* CacheService (node-cache behind generateKey / get / set)                *)
(***************************************************************************)
\* JSON.stringify of a scalar: a number and the string of its digits differ
Num(n) == <<"number", n>>
Str(x) == <<"string", x>>

\* the parameter names used in keys, in the order Array.prototype.sort gives
SortedNames ==
    <<"analysisOptions", "filters", "latitude", "leadType", "lead_type", "location",
      "longitude", "maxBedrooms", "maxPrice", "minBedrooms", "minPrice", "project", "zpid">>

\* prefix, then key=value for the parameters in sorted order of their names
generateKey(prefix, params) ==
    <<prefix>> \o
    [i \in 1..Len(SelectSeq(SortedNames, LAMBDA n : n \in DOMAIN params)) |->
        LET n == SelectSeq(SortedNames, LAMBDA m : m \in DOMAIN params)[i]
        IN <<n, params[n]>>]

\* a JavaScript object is the sequence of its <<name, value>> entries in
\* insertion order; a value is a number, a string or an object
NumberValue(n) == [type |-> "number", value |-> n]
StringValue(x) == [type |-> "string", value |-> x]
ObjectValue(entries) == [type |-> "object", entries |-> entries]

ObjectKeys(entries) == {entries[i][1] : i \in 1..Len(entries)}
Property(entries, name) ==
    entries[CHOOSE i \in 1..Len(entries) : entries[i][1] = name][2]

\* JSON.stringify: the members of an object are written in insertion order
RECURSIVE JSONStringify(_)
JSONStringify(v) ==
    IF v.type = "object"
    THEN <<"object", [i \in 1..Len(v.entries) |->
                         <<v.entries[i][1], JSONStringify(v.entries[i][2])>>]>>
    ELSE <<v.type, v.value>>

\* key => JSON.stringify(params[key]) for the keys of params
KeyParams(params) ==
    [n \in ObjectKeys(params) |-> JSONStringify(Property(params, n))]

VisualValidationKey(latitude, longitude, leadType) ==
    generateKey("visual-validation",
                [latitude |-> Num(latitude), longitude |-> Num(longitude),
                 lead_type |-> Str(leadType)])

EmptyCache == <<>>

\* an entry is served until its time to live has passed
CacheHit(c, key, t) == key \in DOMAIN c /\ t <= c[key].expires

cacheGet(c, key, t) == c[key].value

\* a store that gives the entry no time to live
cacheSetWithoutTtl(c, key, value, ttl, t) ==
    [k \in DOMAIN c \cup {key} |->
        IF k = key THEN [value |-> value, expires |-> t] ELSE c[k]]

cacheSet(c, key, value, ttl, t) ==
    [k \in DOMAIN c \cup {key} |->
        IF k = key THEN [value |-> value, expires |-> t + ttl] ELSE c[k]]

\* the periodic sweep of node-cache removes the expired entries
Sweep(c, t) == [k \in {x \in DOMAIN c : t <= c[x].expires} |-> c[k]]

DefaultTtl == 3600
VisualValidationTtl == 1800

(***************************************************************************)
(* batchLeadService                                                        *)
(***************************************************************************)
PRICE_RANGES ==
    << [min |-> 0, max |-> 100000],
       [min |-> 100001, max |-> 300000],
       [min |-> 300001, max |-> 500000],
       [min |-> 500001, max |-> 750000],
       [min |-> 750001, max |-> 1000000],
       [min |-> 1000001, max |-> 1500000],
       [min |-> 1500001, max |-> 2000000],
       [min |-> 2000001, max |-> 5000000] >>

BufferSize == 15

getBufferSize(requestedLeads) == requestedLeads + BufferSize

validRequestedLeads == {10, 25, 50, 100}

MinLeadConfidence == 60

isValidLeadMutant(property, leadType, visualValidation) ==
    "analysis" \in DOMAIN visualValidation

isValidLead(property, leadType, visualValidation) ==
    IF "analysis" \notin DOMAIN visualValidation THEN FALSE
    ELSE LET analysis == visualValidation.analysis IN
         IF leadType = "PoolLeadGen"
         THEN analysis.has_pool = "true" /\ analysis.confidence >= MinLeadConfidence
         ELSE IF leadType = "BackyardBoost"
         THEN /\ analysis.is_empty_backyard = "false"
              /\ analysis.confidence >= MinLeadConfidence
              /\ analysis.surface_type # "concrete"
         ELSE FALSE

\* a location argument: its JavaScript type and, for a string, its characters
IsString(location) == location.type = "string"
Falsy(location) == location.type = "undefined" \/ (IsString(location) /\ location.chars = <<>>)
IsBlank(location) == \A i \in 1..Len(location.chars) : location.chars[i] = " "

Ids(properties) == {properties[i].id : i \in 1..Len(properties)}

\* an inner loop without the seenIds test
RECURSIVE AddPropertiesUnseen(_, _, _, _)
AddPropertiesUnseen(allProperties, properties, i, totalNeeded) ==
    IF i > Len(properties) THEN allProperties
    ELSE LET pushed == Append(allProperties, properties[i]) IN
         IF Len(pushed) >= totalNeeded THEN pushed
         ELSE AddPropertiesUnseen(pushed, properties, i + 1, totalNeeded)

\* an inner loop that takes every new property of the response
RECURSIVE AddPropertiesNoBreak(_, _, _, _)
AddPropertiesNoBreak(allProperties, properties, i, totalNeeded) ==
    IF i > Len(properties) THEN allProperties
    ELSE IF properties[i].id \notin Ids(allProperties)
    THEN AddPropertiesNoBreak(Append(allProperties, properties[i]), properties, i + 1,
                              totalNeeded)
    ELSE AddPropertiesNoBreak(allProperties, properties, i + 1, totalNeeded)

\* the inner loop of searchAcrossPriceRanges over one response's properties
RECURSIVE AddProperties(_, _, _, _)
AddProperties(allProperties, properties, i, totalNeeded) ==
    IF i > Len(properties) THEN allProperties
    ELSE IF properties[i].id \notin Ids(allProperties)
    THEN LET pushed == Append(allProperties, properties[i]) IN
         IF Len(pushed) >= totalNeeded THEN pushed
         ELSE AddProperties(pushed, properties, i + 1, totalNeeded)
    ELSE AddProperties(allProperties, properties, i + 1, totalNeeded)

\* results && results.data && results.data.properties; a rejected search
\* is caught and adds nothing
BandProperties(response) ==
    IF response.kind = "ok" /\ response.shape = "data" THEN response.properties ELSE <<>>

\* !property.latitude || !property.longitude
MissingCoordinates(property) ==
    \/ property.latitude = NoNumber \/ property.latitude = 0
    \/ property.longitude = NoNumber \/ property.longitude = 0

Lead(property, validation, qualityReport, leadType) ==
    [f \in DOMAIN property \cup {"visualValidation", "qualityReport", "leadType"} |->
        IF f = "visualValidation" THEN validation
        ELSE IF f = "qualityReport" THEN qualityReport
        ELSE IF f = "leadType" THEN leadType
        ELSE property[f]]

PushLeadMutant(validLeads, lead) == <<lead>> \o validLeads

\* validLeads.push
PushLead(validLeads, lead) == Append(validLeads, lead)

\* lines 176-202: the validity check on the validation of properties[idx]
Decide(b, validation) ==
    LET property == b.allProperties[b.idx] IN
    IF isValidLead(property, b.leadType, validation)
    THEN [b EXCEPT
            !.validLeads = PushLead(@, Lead(property, validation,
                                generateQualityReport(property.id, property,
                                                      validation, b.leadType),
                                b.leadType)),
            !.idx = @ + 1]
    ELSE [b EXCEPT
            !.invalidLeads = Append(@, [id |-> property.id, address |-> property.address,
                                        reason |-> <<"Failed validation criteria">>]),
            !.idx = @ + 1]

\* a catch block that records nothing
CaughtSilently(b, message) == [b EXCEPT !.idx = @ + 1]

\* lines 203-213: the catch block of the validation loop
Caught(b, message) ==
    LET property == b.allProperties[b.idx] IN
    [b EXCEPT
        !.invalidLeads = Append(@, [id |-> property.id, address |-> property.address,
                                    reason |-> message]),
        !.idx = @ + 1]

\* round(100 * n / d) to two decimals, in hundredths (toFixed(2))
Percent2(n, d) == (2 * 10000 * n + d) \div (2 * d)

Average2Sum(leads) ==
    LET RECURSIVE Sum(_)
        Sum(i) == IF i = 0 THEN 0
                  ELSE Sum(i - 1) +
                       (IF "analysis" \in DOMAIN leads[i].visualValidation
                        THEN NumOr0(leads[i].visualValidation.analysis.confidence)
                        ELSE 0)
    IN Sum(Len(leads))

\* lines 270-300: the result of getBatchLeads
BatchResult(b) ==
    LET totalToFetch == getBufferSize(b.requestedLeads)
        totalValidated == Len(b.allProperties)
    IN [success |-> TRUE,
        location |-> b.location,
        leadType |-> b.leadType,
        requestedLeads |-> b.requestedLeads,
        deliveredLeads |-> Len(b.validLeads),
        leads |-> SubSeq(b.validLeads, 1,
                         IF Len(b.validLeads) < b.requestedLeads
                         THEN Len(b.validLeads) ELSE b.requestedLeads),
        metadata |-> [totalValidated |-> totalValidated,
                      totalValid |-> Len(b.validLeads),
                      totalInvalid |-> Len(b.invalidLeads),
                      bufferUsed |-> totalToFetch - b.requestedLeads],
        statistics |-> [validationRate |-> IF totalValidated > 0
                                           THEN Percent2(Len(b.validLeads), totalValidated)
                                           ELSE 0,
                        priceRangesSearched |-> Len(PRICE_RANGES),
                        averageConfidence |-> IF Len(b.validLeads) > 0
                                              THEN (2 * 100 * Average2Sum(b.validLeads)
                                                        + Len(b.validLeads))
                                                   \div (2 * Len(b.validLeads))
                                              ELSE 0]]

LoopStopsMutant(b) ==
    b.idx > Len(b.allProperties) \/ Len(b.validLeads) > b.requestedLeads

LoopNeverBreaks(b) == b.idx > Len(b.allProperties)

\* lines 140-143: the for loop ends, or breaks at the requested number
LoopStops(b) ==
    b.idx > Len(b.allProperties) \/ Len(b.validLeads) >= b.requestedLeads

\* validateAndFilterLeads from its current candidate up to the next await:
\* candidates without coordinates and candidates found in the cache are
\* handled without suspending; a cache miss suspends on the verification
RECURSIVE RunValidation(_, _, _)
RunValidation(b, c, t) ==
    IF LoopStops(b)
    THEN [b EXCEPT !.pc = "done", !.result = [ok |-> TRUE, value |-> BatchResult(b)]]
    ELSE LET property == b.allProperties[b.idx] IN
         IF MissingCoordinates(property)
         THEN RunValidation(
                [b EXCEPT !.invalidLeads = Append(@, [id |-> property.id,
                                                      reason |-> <<"Missing coordinates">>]),
                          !.idx = @ + 1], c, t)
         ELSE LET cacheKey == VisualValidationKey(property.latitude, property.longitude,
                                                  b.leadType)
                  looked == [b EXCEPT !.lookups = Append(@, property.id)]
              IN IF CacheHit(c, cacheKey, t)
                 THEN RunValidation(Decide(looked, cacheGet(c, cacheKey, t)), c, t)
                 ELSE [looked EXCEPT !.pc = "verify", !.calls = Append(@, property.id)]

NoPropertiesMessage == <<"No properties found in the specified location">>

NoCandidatesMutant(b) == Len(b.allProperties) < b.requestedLeads

\* line 259
NoCandidates(b) == Len(b.allProperties) = 0

\* searchAcrossPriceRanges from the top of its for loop (band is the next
\* price range) up to the next await, continuing into getBatchLeads and
\* validateAndFilterLeads when the loop ends
RunSearch(b, c, t) ==
    IF b.band > Len(PRICE_RANGES)
       \/ Len(b.allProperties) >= getBufferSize(b.requestedLeads)
    THEN IF NoCandidates(b)
         THEN [b EXCEPT !.pc = "done",
                        !.result = [ok |-> FALSE, message |-> NoPropertiesMessage]]
         ELSE RunValidation([b EXCEPT !.idx = 1], c, t)
    ELSE [b EXCEPT !.pc = "search", !.searches = Append(@, b.band)]

(***************************************************************************)
(* transformService and the routes that share the visual-validation cache  *)
(***************************************************************************)
wrapResponse(data, cached, t) ==
    [success |-> TRUE,
     data |-> data,
     metadata |-> [timestamp |-> t, source |-> "zillow", cached |-> cached]]

\* parseNumber(rawData.latitude || rawData.lat): 0 is falsy and reads as null
ParseCoordinate(n) == IF n = NoNumber \/ n = 0 THEN NoNumber ELSE n

transformProperty(rawData) ==
    [id |-> rawData.id,
     address |-> rawData.address,
     latitude |-> ParseCoordinate(rawData.latitude),
     longitude |-> ParseCoordinate(rawData.longitude),
     has_pool |-> OrElse(rawData.has_pool, "false"),
     has_backyard |-> IF rawData.has_backyard # "false" THEN "true" ELSE "false",
     pool_type |-> U, surface_type |-> U, lot_size |-> U]

\* rawResults.props, .results or .properties is the list; an object that
\* keeps its list under data.properties yields no property
transformSearchResults(rawResults) ==
    IF rawResults.shape = "props"
    THEN [i \in 1..Len(rawResults.properties) |-> transformProperty(rawResults.properties[i])]
    ELSE <<>>

\* validateVisualValidationParams; "" when the parameters pass
VisualParamsError(latitude, longitude, lead_type) ==
    IF latitude = NoNumber THEN "Latitude parameter is required"
    ELSE IF latitude < -90 \/ latitude > 90 THEN "Latitude must be between -90 and 90"
    ELSE IF longitude = NoNumber THEN "Longitude parameter is required"
    ELSE IF longitude < -180 \/ longitude > 180 THEN "Longitude must be between -180 and 180"
    ELSE IF lead_type \notin LeadTypes
    THEN "Lead type must be either PoolLeadGen or BackyardBoost"
    ELSE ""

\* validateSearchParams on the location; "" when it passes
SearchParamsError(location) ==
    IF Falsy(location) \/ ~IsString(location) \/ IsBlank(location)
    THEN "Location parameter is required and must be a non-empty string"
    ELSE ""

(***************************************************************************)
(* Idle states of the components                                           *)
(***************************************************************************)
NoCall == [idle |-> TRUE]
NoReport == [pending |-> TRUE]

NoLocation == [type |-> "undefined", chars |-> <<>>]

BatchIdle ==
    [pc |-> "idle", runs |-> 0,
     location |-> NoLocation, leadType |-> U, requestedLeads |-> 0,
     band |-> 0, searches |-> <<>>, allProperties |-> <<>>,
     idx |-> 0, validLeads |-> <<>>, invalidLeads |-> <<>>, lookups |-> <<>>,
     calls |-> <<>>,
     result |-> NoCall, multi |-> NoCall]

RouteIdle == [pc |-> "idle", runs |-> 0, response |-> NoCall]

QIdle == qin = NoCall /\ report = NoReport
VIdle == vin = NoCall /\ vout = NoCall
BIdle ==
    /\ world = NoCall
    /\ cache = EmptyCache
    /\ now = 0
    /\ batch = BatchIdle
    /\ rv = RouteIdle
    /\ sr = RouteIdle
    /\ sa = RouteIdle
    /\ ma = RouteIdle
    /\ es = RouteIdle

(***************************************************************************)
(* Specification of the quality reconciler: one generateQualityReport call *)
(* on arguments drawn from the values its callers can pass                 *)
(***************************************************************************)
MaxConfidence == 100
Confidences == 0..MaxConfidence

NoZillowFields ==
    [has_pool |-> U, pool_type |-> U, has_backyard |-> U,
     surface_type |-> U, lot_size |-> U]

QPoolZillow ==
    {[NoZillowFields EXCEPT !.has_pool = hp, !.pool_type = pt] :
        hp \in {"true", "false", U}, pt \in {U, "in-ground", "above-ground"}}

QPoolAnalysis ==
    {[EmptyAnalysis EXCEPT !.has_pool = hp, !.pool_type = pt, !.confidence = c] :
        hp \in {"true", "false"}, pt \in {U, "in-ground"}, c \in Confidences}

\* a lot size is listed with the properties that have a yard
QBackyardZillow ==
    {[NoZillowFields EXCEPT !.has_backyard = hb, !.surface_type = st,
                            !.lot_size = IF hb = "true" THEN "8000" ELSE U] :
        hb \in {"true", "false", U}, st \in {U, "grass"}}

QBackyardAnalysis ==
    {[EmptyAnalysis EXCEPT !.is_empty_backyard = e, !.is_underdeveloped = u,
                           !.surface_type = st, !.estimated_free_area = fa,
                           !.development_potential = dp, !.confidence = c] :
        e \in {"true", "false"}, u \in {"true", "false"},
        st \in {U, "grass", "concrete"},
        fa \in {"medium", "low"}, dp \in {"high", "low"},
        c \in Confidences}

QValidation(leadType, a) ==
    [leadType |-> leadType, satelliteImageUrl |-> ImageUrl(33, -112),
     analysis |-> a, timestamp |-> 0]

QualityInputs ==
    {[leadId |-> 1, zillowData |-> z, visualValidation |-> QValidation("PoolLeadGen", a),
      leadType |-> "PoolLeadGen"] : z \in QPoolZillow, a \in QPoolAnalysis}
    \cup
    {[leadId |-> 1, zillowData |-> z, visualValidation |-> QValidation("BackyardBoost", a),
      leadType |-> "BackyardBoost"] : z \in QBackyardZillow, a \in QBackyardAnalysis}
    \cup
    \* a validation without analysis
    {[leadId |-> 1, zillowData |-> z,
      visualValidation |-> [leadType |-> "PoolLeadGen",
                            satelliteImageUrl |-> ImageUrl(33, -112)],
      leadType |-> "PoolLeadGen"] : z \in QPoolZillow \cup {NoZillowFields}}
    \cup
    {[leadId |-> 1, zillowData |-> z,
      visualValidation |-> [leadType |-> "BackyardBoost",
                            satelliteImageUrl |-> ImageUrl(33, -112)],
      leadType |-> "BackyardBoost"] : z \in QBackyardZillow \cup {NoZillowFields}}

HasReport == "qualityScore" \in DOMAIN report
HasFlag == "flag" \in DOMAIN report

QInit ==
    /\ qin \in QualityInputs
    /\ report = NoReport
    /\ VIdle
    /\ BIdle

GenerateQualityReport ==
    /\ report = NoReport
    /\ report' = generateQualityReport(qin.leadId, qin.zillowData,
                                       qin.visualValidation, qin.leadType)
    /\ UNCHANGED <<qin, vvars, bvars>>

QNext == GenerateQualityReport

SpecQuality == QInit /\ [][QNext]_vars

\* the analysis handed to the reconciler (an absent analysis reads as {})
QAnalysis ==
    IF "analysis" \in DOMAIN qin.visualValidation
    THEN qin.visualValidation.analysis ELSE EmptyAnalysis

(***************************************************************************)
(* Specification of the vision verifier: one verify_property_visually call *)
(* for every configuration of credentials and every combination of         *)
(* upstream answers                                                        *)
(***************************************************************************)
AnalysisA ==
    [has_pool |-> "true", pool_type |-> "in-ground", is_empty_backyard |-> "false",
     is_underdeveloped |-> "true", surface_type |-> "grass",
     estimated_free_area |-> "high", development_potential |-> "high",
     confidence |-> 85]

AnalysisB ==
    [has_pool |-> "false", pool_type |-> U, is_empty_backyard |-> "true",
     is_underdeveloped |-> "false", surface_type |-> "concrete",
     estimated_free_area |-> "low", development_potential |-> "low",
     confidence |-> 40]

\* answers of a vision provider: a transport error, prose without JSON,
\* two well-formed objects, an object without its required booleans, one
\* with an out-of-range confidence, one with a free area outside the enum
\* and two whose surface type is missing or is no surface the prompt names
Answers ==
    { TransportError(<<"Network Error">>),
      TextResponse(FALSE, EmptyAnalysis),
      TextResponse(TRUE, AnalysisA),
      TextResponse(TRUE, AnalysisB),
      TextResponse(TRUE, [AnalysisA EXCEPT !.has_pool = U, !.is_empty_backyard = U]),
      TextResponse(TRUE, [AnalysisA EXCEPT !.confidence = 101]),
      TextResponse(TRUE, [AnalysisA EXCEPT !.estimated_free_area = "huge"]),
      TextResponse(TRUE, [AnalysisA EXCEPT !.surface_type = U]),
      TextResponse(TRUE, [AnalysisB EXCEPT !.surface_type = "lava"]) }

\* a verification contacts at most three times (part_003:481-550)
MaxContacts == 3

Credentials ==
    [googleMapsApiKey : BOOLEAN, openaiApiKey : BOOLEAN,
     groqApiKey : BOOLEAN, geminiApiKey : BOOLEAN]

VisionInputs ==
    \* every combination of provider answers, for well-formed arguments
    {[cfg |-> c, latitude |-> 33, longitude |-> -112, leadType |-> lt,
      env |-> [image |-> "ok", imageFetch |-> f, answers |-> a]] :
        c \in {k \in Credentials : k.googleMapsApiKey}, lt \in LeadTypes,
        f \in {"ok", "error"}, a \in [1..MaxContacts -> Answers]}
    \cup
    \* every combination of arguments and credentials, for two sets of answers
    {[cfg |-> c, latitude |-> la, longitude |-> lo, leadType |-> lt,
      env |-> [image |-> i, imageFetch |-> "ok", answers |-> [k \in 1..MaxContacts |-> a]]] :
        c \in Credentials, la \in {33, 95, NoNumber}, lo \in {-112, 200},
        lt \in LeadTypes \cup {"Other"}, i \in {"ok", "error"},
        a \in {TransportError(<<"Network Error">>), TextResponse(TRUE, AnalysisA)}}

VInit ==
    /\ vin \in VisionInputs
    /\ vout = NoCall
    /\ QIdle
    /\ BIdle

VerifyPropertyVisually ==
    /\ vout = NoCall
    /\ vout' = verify_property_visually(vin.cfg, vin.latitude, vin.longitude,
                                        vin.leadType, vin.env, 0)
    /\ UNCHANGED <<vin, qvars, bvars>>

VNext == VerifyPropertyVisually

SpecVision == VInit /\ [][VNext]_vars

VDone == "ok" \in DOMAIN vout

Rank(provider) ==
    IF provider = "OpenAI" THEN 1 ELSE IF provider = "Groq" THEN 2 ELSE 3

\* a is a contiguous part of message m
Embeds(m, a) ==
    \E i \in 0..(Len(m) - Len(a)) : \A k \in 1..Len(a) : m[i + k] = a[k]

PrimaryErrorMessage ==
    LET r == vin.env.answers[1] IN
    IF vin.leadType \notin LeadTypes THEN LeadTypeError
    ELSE IF r.kind = "error" THEN r.message
    ELSE parseAnalysisResponse(r, vin.leadType).message

C4_RankOrderFallback ==
    (VDone /\ vout.trace # <<>>) =>
        LET t == vout.trace
            c == Contacts(t)
        IN /\ \A i \in 1..Len(c), j \in 1..Len(c) :
                  i < j => Rank(c[i].provider) < Rank(c[j].provider)
           /\ \A i \in 1..Len(t) :
                  t[i].contacted =>
                      \A q \in {"OpenAI", "Groq", "Gemini"} :
                          Rank(q) < Rank(t[i].provider) =>
                              \/ \E j \in 1..(i - 1) :
                                    t[j].provider = q /\ t[j].outcome # "ok"
                              \/ q = "OpenAI" /\ ~vin.cfg.openaiApiKey
           /\ vout.ok => /\ t[Len(t)].outcome = "ok"
                         /\ \A j \in 1..(Len(t) - 1) : t[j].outcome # "ok"
                         /\ vout.validation.analysis = vin.env.answers[Len(c)].obj
           /\ ~vout.ok =>
                  /\ t[1].provider = "OpenAI"
                  /\ vout.message = <<"Visual property verification failed: ",
                                      AllProvidersPrefix>> \o PrimaryErrorMessage

(***************************************************************************)
(* C6: in every report produced by generateQualityReport, a discrepancy of *)
(* severity major comes with a REVIEW or REJECT recommendation, never      *)
(* APPROVE, for both categories and every confidence.                      *)
(***************************************************************************)
C6_MajorNeverApproved ==
    (HasReport /\ report.discrepancy.severity = "major")
        => report.recommendation \in {ReviewMsg, RejectMsg}

C6_Witness ==
    /\ HasReport
    /\ report.discrepancy.severity = "major"
    /\ qin.leadType = "BackyardBoost"
    /\ report.recommendation = RejectMsg

(***************************************************************************)
(* C7: a report carries a flag exactly when its discrepancy is detected    *)
(* with severity major, and the recommendation is the one the mapping      *)
(* gives for (qualityScore, discrepancy) whether or not a flag is attached.*)
(***************************************************************************)
C7_FlagIffMajor ==
    HasReport =>
        /\ HasFlag <=> (report.discrepancy.detected /\ report.discrepancy.severity = "major")
        /\ HasFlag => report.flag.flagType = report.discrepancy.type
        /\ report.recommendation =
              (IF report.qualityScore = "high" THEN ApproveMsg
               ELSE IF report.qualityScore = "low" THEN RejectMsg
               ELSE IF report.discrepancy.severity = "major" THEN ReviewMsg
               ELSE ApproveMsg)

C7_Witness ==
    /\ HasReport
    /\ HasFlag
    /\ report.discrepancy.detected
    /\ report.discrepancy.severity = "major"
    /\ qin.leadType = "PoolLeadGen"

(***************************************************************************)
(* C9: PoolCheck presence rule.  When provider and vision pool presence    *)
(* differ, the discrepancy is detected with type pool_mismatch; severity   *)
(* is major for confidence >= 80, minor for 60..79, none below 60.         *)
(***************************************************************************)
PoolPresenceDiffers ==
    /\ qin.leadType = "PoolLeadGen"
    /\ Truthy(qin.zillowData.has_pool) # Truthy(QAnalysis.has_pool)

C9_PoolSeverityTiers ==
    (HasReport /\ PoolPresenceDiffers) =>
        LET c == NumOr0(QAnalysis.confidence) IN
        /\ report.discrepancy.detected
        /\ report.discrepancy.type = "pool_mismatch"
        /\ (c >= 80) <=> (report.discrepancy.severity = "major")
        /\ (c >= 60 /\ c < 80) <=> (report.discrepancy.severity = "minor")
        /\ (c < 60) <=> (report.discrepancy.severity = "none")

C9_Witness ==
    /\ HasReport
    /\ PoolPresenceDiffers
    /\ QAnalysis.confidence = 80
    /\ report.discrepancy.severity = "major"

(***************************************************************************)
(* C10: BackyardCheck, non-ideal case.  The discrepancy has severity major *)
(* exactly when the provider asserts a yard, vision estimates the free     *)
(* area as low and the confidence is at least 90, whatever the other       *)
(* fields (surface types included) are.                                    *)
(***************************************************************************)
BackyardNonIdeal ==
    /\ qin.leadType = "BackyardBoost"
    /\ "analysis" \in DOMAIN qin.visualValidation
    /\ ~(QAnalysis.is_underdeveloped = "true" /\ QAnalysis.development_potential = "high")

C10_BackyardMajorExactly ==
    (HasReport /\ BackyardNonIdeal) =>
        ((report.discrepancy.severity = "major")
            <=> (/\ qin.zillowData.has_backyard # "false"
                 /\ QAnalysis.estimated_free_area = "low"
                 /\ QAnalysis.confidence >= 90))

(***************************************************************************)
(* Specification of the server process: getBatchLeads calls, POST          *)
(* /validate-visual and GET /search requests and the passing of time,      *)
(* interleaved at their awaits, over one cache                             *)
(***************************************************************************)
\* the listings of the model: property id has the coordinates and provider
\* attributes given here; several properties share coordinates
RawProperty(id) ==
    [id |-> id,
     address |-> <<"address of ", id>>,
     latitude |-> IF id % 5 = 0 THEN NoNumber
                  ELSE IF id % 5 = 4 THEN 0
                  ELSE IF id % 5 = 3 THEN 34 ELSE 33,
     longitude |-> IF id % 5 = 3 THEN -111 ELSE -112,
     has_pool |-> IF id % 2 = 0 THEN "true" ELSE U,
     pool_type |-> IF id % 4 = 0 THEN "above-ground" ELSE U,
     has_backyard |-> IF id % 3 = 0 THEN "false" ELSE U,
     surface_type |-> IF id % 3 = 1 THEN "grass" ELSE U,
     lot_size |-> IF id % 2 = 1 THEN "8000" ELSE U]

SearchError == [kind |-> "error", message |-> <<"No response from Zillow API">>]
SearchOk(shape, ids) ==
    [kind |-> "ok", shape |-> shape,
     properties |-> [i \in 1..Len(ids) |-> RawProperty(ids[i])]]

\* price range b answers with perBand properties, the first of which is
\* the last one of the range before; the range failing fails
BandResponse(b, perBand, failing, shape) ==
    IF b = failing THEN SearchError
    ELSE SearchOk(shape, [i \in 1..perBand |-> (b - 1) * (perBand - 1) + i])

AllCredentials ==
    [googleMapsApiKey |-> TRUE, openaiApiKey |-> TRUE,
     groqApiKey |-> TRUE, geminiApiKey |-> TRUE]

MaxPerBand == 14
MaxRouteResults == 2

AnswerError == TransportError(<<"Network Error">>)
AnswerA == TextResponse(TRUE, AnalysisA)
AnswerB == TextResponse(TRUE, AnalysisB)

\* what the upstream services answer during one verification: every
\* provider contacted gives the answer a
Env(a) == [image |-> "ok", imageFetch |-> "ok", answers |-> [k \in 1..MaxContacts |-> a]]

World(perBand, failing, shape, route, answers) ==
    [cfg |-> AllCredentials,
     bands |-> [b \in 1..Len(PRICE_RANGES) |-> BandResponse(b, perBand, failing, shape)],
     route |-> route,
     envs |-> {Env(a) : a \in answers}]

RouteListing == SearchOk("props", [i \in 1..MaxRouteResults |-> i])

Worlds ==
    { World(MaxPerBand, 0, "data", RouteListing, {AnswerA, AnswerB}),
      World(MaxPerBand, 1, "data", RouteListing, {AnswerA}),
      World(2, 0, "data", RouteListing, {AnswerA, AnswerError}),
      World(2, 1, "data", SearchError, {AnswerError}),
      \* a price range in the middle, and the last one, failing
      World(2, 2, "data", RouteListing, {AnswerA}),
      World(2, Len(PRICE_RANGES), "data", RouteListing, {AnswerB}),
      \* a price range that lists a property twice
      [World(2, 0, "data", RouteListing, {AnswerA})
          EXCEPT !.bands[1] = SearchOk("data", <<1, 1, 2>>)],
      World(0, 0, "data", RouteListing, {AnswerA}),
      \* a provider that keeps its list under props
      World(2, 0, "props", SearchError, {AnswerB}) }

Blank == [type |-> "string", chars |-> <<" ", " ">>]
City == [type |-> "string", chars |-> <<"A", "Z">>]

\* the calls of getBatchLeads: the well-formed ones and one call for each
\* way of being ill-formed
BatchInputs ==
    {<<City, lt, 10>> : lt \in LeadTypes}
    \cup {<<l, "PoolLeadGen", 10>> :
            l \in {NoLocation, [type |-> "number", chars |-> <<>>],
                   [type |-> "string", chars |-> <<>>], Blank}}
    \cup {<<City, "Other", 10>>, <<City, "BackyardBoost", 5>>}

ValidateVisualInputs ==
    {<<33, -112, lt>> : lt \in LeadTypes} \cup {<<95, -112, "PoolLeadGen">>, <<33, -112, "Other">>}

SearchInputs ==
    {<<City, lt>> : lt \in LeadTypes \cup {U}} \cup {<<Blank, U>>}

MaxRuns == 1
MaxInFlight == 1
TickSeconds == 1000
MaxTime == 2000

InFlight ==
    Cardinality({i \in 1..3 : <<batch, rv, sr>>[i].pc \notin {"idle", "done"}})

BInit ==
    /\ world \in Worlds
    /\ cache = EmptyCache
    /\ now = 0
    /\ batch = BatchIdle
    /\ rv = RouteIdle
    /\ sr = RouteIdle
    /\ sa = RouteIdle
    /\ ma = RouteIdle
    /\ es = RouteIdle
    /\ QIdle
    /\ VIdle

\* the one element of a one-element set: binds an intermediate value of a
\* function body once, as a const declaration does
Only(S) == CHOOSE x \in S : TRUE

\* getBatchLeads up to its first await (lines 234-257), called in the
\* context b (the number of calls so far, the enclosing getBatchLeadsMultiple)
StartBatch(b, location, leadType, requestedLeads, c, t) ==
    Only({ IF Falsy(location) \/ ~IsString(location)
           THEN [b1 EXCEPT !.pc = "done",
                           !.result = [ok |-> FALSE, message |-> <<"Location is required">>]]
           ELSE IF leadType \notin {"PoolLeadGen", "BackyardBoost"}
           THEN [b1 EXCEPT !.pc = "done",
                           !.result = [ok |-> FALSE,
                                       message |-> <<"Lead type must be PoolLeadGen or BackyardBoost">>]]
           ELSE IF requestedLeads \notin validRequestedLeads
           THEN [b1 EXCEPT !.pc = "done",
                           !.result = [ok |-> FALSE,
                                       message |-> <<"Requested leads must be 10, 25, 50, or 100">>]]
           ELSE RunSearch(b1, c, t)
         : b1 \in {[BatchIdle EXCEPT !.runs = b.runs,
                                     !.multi = b.multi,
                                     !.location = location,
                                     !.leadType = leadType,
                                     !.requestedLeads = requestedLeads,
                                     !.band = 1]} })

ErrorEntryMutant(message, leadType) ==
    [success |-> TRUE, error |-> message, leadType |-> leadType]

\* lines 318-322: the entry of a category whose getBatchLeads call failed
ErrorEntry(message, leadType) ==
    [success |-> FALSE, error |-> message, leadType |-> leadType]

\* results[leadType] = entry
SetResult(results, leadType, entry) ==
    [lt \in DOMAIN results \cup {leadType} |->
        IF lt = leadType THEN entry ELSE results[lt]]

\* lines 326-332
MultipleResult(m) ==
    [success |-> \A lt \in DOMAIN m.results : m.results[lt].success,
     location |-> m.location,
     requestedLeads |-> m.requestedLeads,
     results |-> m.results]

\* getBatchLeadsMultiple from the top of its for loop (m.k categories are
\* done) up to the next await of a getBatchLeads call, or to its return; a
\* getBatchLeads call that settles without suspending is recorded at once
RECURSIVE RunMultiple(_, _, _)
RunMultiple(b, c, t) ==
    LET m == b.multi IN
    IF m.k >= Len(m.leadTypes)
    THEN [b EXCEPT !.pc = "done",
                   !.multi = [m EXCEPT !.done = TRUE, !.value = MultipleResult(m)]]
    ELSE LET leadType == m.leadTypes[m.k + 1] IN
         Only({ IF b1.pc = "done"
                THEN Only({ RunMultiple(b2, c, t)
                          : b2 \in {[b1 EXCEPT !.multi.results =
                                        SetResult(@, leadType,
                                                  IF b1.result.ok THEN b1.result.value
                                                  ELSE ErrorEntry(b1.result.message,
                                                                  leadType))]} })
                ELSE b1
              : b1 \in {StartBatch([b EXCEPT !.multi.k = m.k + 1],
                                   m.location, leadType, m.requestedLeads, c, t)} })

\* a getBatchLeads call has run up to an await or to its end: at its end
\* inside getBatchLeadsMultiple its outcome is recorded (lines 314-323) and
\* the loop goes on
Settle(b, c, t) ==
    IF b.pc = "done" /\ b.multi # NoCall
    THEN Only({ RunMultiple(b2, c, t)
              : b2 \in {[b EXCEPT !.multi.results =
                            SetResult(@, b.leadType,
                                      IF b.result.ok THEN b.result.value
                                      ELSE ErrorEntry(b.result.message, b.leadType))]} })
    ELSE b

\* a call of getBatchLeads
BatchStart(location, leadType, requestedLeads) ==
    /\ batch.pc \in {"idle", "done"}
    /\ batch.runs < MaxRuns
    /\ InFlight < MaxInFlight
    /\ \E b \in {StartBatch([BatchIdle EXCEPT !.runs = batch.runs + 1],
                             location, leadType, requestedLeads, cache, now)} :
          batch' = b
    /\ UNCHANGED <<world, cache, now, rv, sr, sa, ma, es, qvars, vvars>>

\* a call of getBatchLeadsMultiple (lines 310-333)
MultipleStart(location, leadTypes, requestedLeads) ==
    /\ batch.pc \in {"idle", "done"}
    /\ batch.runs < MaxRuns
    /\ InFlight < MaxInFlight
    /\ \E b0 \in {[BatchIdle EXCEPT
                       !.runs = batch.runs + 1,
                       !.multi = [location |-> location, leadTypes |-> leadTypes,
                                  requestedLeads |-> requestedLeads, k |-> 0,
                                  results |-> <<>>, done |-> FALSE, value |-> NoCall]]} :
       \E b \in {RunMultiple(b0, cache, now)} :
          batch' = b
    /\ UNCHANGED <<world, cache, now, rv, sr, sa, ma, es, qvars, vvars>>

\* a search loop without its try and catch: a rejected search ends the batch
BatchSearchReturnUncaught ==
    /\ batch.pc = "search"
    /\ \E response \in {world.bands[batch.band]} :
       \E b \in {[batch EXCEPT
                    !.allProperties = AddProperties(@, BandProperties(response), 1,
                                                    getBufferSize(batch.requestedLeads)),
                    !.band = @ + 1]} :
       \E b1 \in {IF response.kind = "error"
                  THEN [b EXCEPT !.pc = "done",
                                 !.result = [ok |-> FALSE, message |-> response.message]]
                  ELSE RunSearch(b, cache, now)} :
       \E b2 \in {Settle(b1, cache, now)} :
          batch' = b2
    /\ UNCHANGED <<world, cache, now, rv, sr, sa, ma, es, qvars, vvars>>

\* the search of price range batch.band returns (lines 89-119)
BatchSearchReturn ==
    /\ batch.pc = "search"
    /\ \E response \in {world.bands[batch.band]} :
       \E b \in {[batch EXCEPT
                    !.allProperties = AddProperties(@, BandProperties(response), 1,
                                                    getBufferSize(batch.requestedLeads)),
                    !.band = @ + 1]} :
       \E b1 \in {RunSearch(b, cache, now)} :
       \E b2 \in {Settle(b1, cache, now)} :
          batch' = b2
    /\ UNCHANGED <<world, cache, now, rv, sr, sa, ma, es, qvars, vvars>>

\* a validation loop that also stores what a failed verification left
BatchVerifyReturnStoresFailure(env) ==
    /\ batch.pc = "verify"
    /\ \E property \in {batch.allProperties[batch.idx]} :
       \E r \in {verify_property_visually(world.cfg, property.latitude, property.longitude,
                                          batch.leadType, env, now)} :
       \E cacheKey \in {VisualValidationKey(property.latitude, property.longitude,
                                            batch.leadType)} :
       \E c \in {cacheSet(cache, cacheKey,
                          IF r.ok THEN r.validation ELSE [error |-> r.message],
                          VisualValidationTtl, now)} :
       \E b \in {IF r.ok THEN Decide(batch, r.validation) ELSE Caught(batch, r.message)} :
          /\ cache' = c
          /\ \E b1 \in {RunValidation(b, c, now)} :
             \E b2 \in {Settle(b1, c, now)} :
                batch' = b2
    /\ UNCHANGED <<world, now, rv, sr, sa, ma, es, qvars, vvars>>

\* the verification of candidate batch.idx returns (lines 166-213)
BatchVerifyReturn(env) ==
    /\ batch.pc = "verify"
    /\ \E property \in {batch.allProperties[batch.idx]} :
       \E r \in {verify_property_visually(world.cfg, property.latitude, property.longitude,
                                          batch.leadType, env, now)} :
       \E cacheKey \in {VisualValidationKey(property.latitude, property.longitude,
                                            batch.leadType)} :
       \E c \in {IF r.ok
                 THEN cacheSet(cache, cacheKey, r.validation, VisualValidationTtl, now)
                 ELSE cache} :
       \E b \in {IF r.ok THEN Decide(batch, r.validation) ELSE Caught(batch, r.message)} :
          /\ cache' = c
          /\ \E b1 \in {RunValidation(b, c, now)} :
             \E b2 \in {Settle(b1, c, now)} :
                batch' = b2
    /\ UNCHANGED <<world, now, rv, sr, sa, ma, es, qvars, vvars>>

\* POST /validate-visual up to its await (properties.js:324-353)
ValidateVisualStart(latitude, longitude, lead_type) ==
    /\ rv.pc \in {"idle", "done"}
    /\ rv.runs < MaxRuns
    /\ InFlight < MaxInFlight
    /\ LET e == VisualParamsError(latitude, longitude, lead_type)
           cacheKey == VisualValidationKey(latitude, longitude, lead_type)
           r == [pc |-> "done", runs |-> rv.runs + 1, response |-> NoCall]
       IN rv' =
            IF e # "" THEN [r EXCEPT !.response = [status |-> "error", message |-> <<e>>]]
            ELSE IF CacheHit(cache, cacheKey, now)
            THEN [r EXCEPT !.response = [status |-> 200, body |-> cacheGet(cache, cacheKey, now)]]
            ELSE [pc |-> "verify", runs |-> rv.runs + 1, response |-> NoCall,
                  latitude |-> latitude, longitude |-> longitude, lead_type |-> lead_type]
    /\ UNCHANGED <<world, cache, now, batch, sr, sa, ma, es, qvars, vvars>>

\* properties.js:363
WrapValidation(validation, t) == wrapResponse(validation, FALSE, t)

\* the verification of POST /validate-visual returns (properties.js:355-371)
ValidateVisualReturn(env) ==
    /\ rv.pc = "verify"
    /\ \E r \in {verify_property_visually(world.cfg, rv.latitude, rv.longitude,
                                          rv.lead_type, env, now)} :
       \E cacheKey \in {VisualValidationKey(rv.latitude, rv.longitude, rv.lead_type)} :
          IF r.ok
          THEN \E transformedResponse \in {WrapValidation(r.validation, now)} :
               /\ cache' = cacheSet(cache, cacheKey, transformedResponse,
                                    VisualValidationTtl, now)
               /\ rv' = [pc |-> "done", runs |-> rv.runs,
                         response |-> [status |-> 200, body |-> transformedResponse]]
          ELSE /\ cache' = cache
               /\ rv' = [pc |-> "done", runs |-> rv.runs,
                         response |-> [status |-> "error", message |-> r.message]]
    /\ UNCHANGED <<world, now, batch, sr, sa, ma, es, qvars, vvars>>

SearchKey(location) ==
    generateKey("search", [location |-> Str(location.chars), project |-> <<U>>])

\* the end of GET /search: the response is cached and sent (properties.js:264-267)
SearchFinish(r, c, t) ==
    LET transformedResponse ==
            [success |-> TRUE,
             data |-> [properties |-> r.properties, totalCount |-> Len(r.properties)],
             metadata |-> [timestamp |-> r.started, source |-> "zillow", cached |-> FALSE]]
    IN [route |-> [pc |-> "done", runs |-> r.runs,
                   response |-> [status |-> 200, body |-> transformedResponse]],
        cache |-> cacheSet(c, SearchKey(r.location), transformedResponse, DefaultTtl, t)]

\* GET /search up to its await (properties.js:166-207)
SearchStart(location, includeVisualValidation) ==
    /\ sr.pc \in {"idle", "done"}
    /\ sr.runs < MaxRuns
    /\ InFlight < MaxInFlight
    /\ LET e == SearchParamsError(location)
           r == [pc |-> "done", runs |-> sr.runs + 1, response |-> NoCall]
       IN sr' =
            IF e # "" THEN [r EXCEPT !.response = [status |-> "error", message |-> <<e>>]]
            ELSE IF CacheHit(cache, SearchKey(location), now)
            THEN [r EXCEPT !.response =
                    [status |-> 200, body |-> cacheGet(cache, SearchKey(location), now)]]
            ELSE [pc |-> "search", runs |-> sr.runs + 1, response |-> NoCall,
                  location |-> location,
                  includeVisualValidation |-> includeVisualValidation]
    /\ UNCHANGED <<world, cache, now, batch, rv, sa, ma, es, qvars, vvars>>

\* properties.js:221: both coordinates are truthy
HasCoordinates(property) ==
    property.latitude \notin {NoNumber, 0} /\ property.longitude \notin {NoNumber, 0}

\* properties.js:240-243
WithValidation(property, validation) ==
    [f \in DOMAIN property \cup {"visualValidation"} |->
        IF f = "visualValidation" THEN validation ELSE property[f]]

\* the search of GET /search returns; with includeVisualValidation every
\* property runs up to its own await inside Promise.all (properties.js:209-243)
SearchSearchReturn ==
    /\ sr.pc = "search"
    /\ LET response == world.route
           properties == transformSearchResults(response)
           lead_type == sr.includeVisualValidation
           Key(i) == VisualValidationKey(properties[i].latitude,
                                         properties[i].longitude, lead_type)
           Cached(i) == HasCoordinates(properties[i]) /\ CacheHit(cache, Key(i), now)
           attached == [i \in 1..Len(properties) |->
                           IF Cached(i)
                           THEN WithValidation(properties[i], cacheGet(cache, Key(i), now))
                           ELSE properties[i]]
           pending == {i \in 1..Len(properties) :
                           HasCoordinates(properties[i]) /\ ~Cached(i)}
           r == [pc |-> "verify", runs |-> sr.runs, response |-> NoCall,
                 location |-> sr.location, includeVisualValidation |-> lead_type,
                 started |-> now, properties |-> attached, pending |-> pending]
       IN IF response.kind = "error"
          THEN /\ sr' = [pc |-> "done", runs |-> sr.runs,
                         response |-> [status |-> "error", message |-> response.message]]
               /\ cache' = cache
          ELSE IF Truthy(lead_type) /\ Len(properties) > 0 /\ pending # {}
          THEN /\ sr' = r
               /\ cache' = cache
          ELSE LET f == SearchFinish([r EXCEPT !.properties =
                                         IF Truthy(lead_type) THEN attached ELSE properties],
                                     cache, now)
               IN sr' = f.route /\ cache' = f.cache
    /\ UNCHANGED <<world, now, batch, rv, sa, ma, es, qvars, vvars>>

\* the verification of property i of GET /search returns (properties.js:234-253)
SearchVerifyReturn(i, env) ==
    /\ sr.pc = "verify"
    /\ i \in sr.pending
    /\ \E property \in {sr.properties[i]} :
       \E r \in {verify_property_visually(world.cfg, property.latitude, property.longitude,
                                          sr.includeVisualValidation, env, now)} :
       \E cacheKey \in {VisualValidationKey(property.latitude, property.longitude,
                                            sr.includeVisualValidation)} :
       \E c \in {IF r.ok
                 THEN cacheSet(cache, cacheKey, r.validation, VisualValidationTtl, now)
                 ELSE cache} :
       \E s \in {[sr EXCEPT !.pending = @ \ {i},
                            !.properties[i] =
                                IF r.ok THEN WithValidation(property, r.validation)
                                ELSE @]} :
          IF s.pending = {}
          THEN \E f \in {SearchFinish(s, c, now)} :
                  sr' = f.route /\ cache' = f.cache
          ELSE sr' = s /\ cache' = c
    /\ UNCHANGED <<world, now, batch, rv, sa, ma, es, qvars, vvars>>

\* time passes; the cache drops what has expired
Tick ==
    /\ now + TickSeconds <= MaxTime
    /\ now' = now + TickSeconds
    /\ cache' = Sweep(cache, now + TickSeconds)
    /\ UNCHANGED <<world, batch, rv, sr, sa, ma, es, qvars, vvars>>

BNext ==
    \/ \E in \in BatchInputs : BatchStart(in[1], in[2], in[3])
    \/ BatchSearchReturn
    \/ \E env \in world.envs : BatchVerifyReturn(env)
    \/ \E in \in ValidateVisualInputs : ValidateVisualStart(in[1], in[2], in[3])
    \/ \E env \in world.envs : ValidateVisualReturn(env)
    \/ \E in \in SearchInputs : SearchStart(in[1], in[2])
    \/ SearchSearchReturn
    \/ \E i \in 1..MaxRouteResults, env \in world.envs : SearchVerifyReturn(i, env)
    \/ Tick

SpecBatch == BInit /\ [][BNext]_vars

BatchDone == batch.pc = "done"
BatchSucceeded == BatchDone /\ batch.result.ok
BatchFailed == BatchDone /\ ~batch.result.ok

(***************************************************************************)
(* C1: in every result returned by getBatchLeads, deliveredLeads is the    *)
(* length of leads, deliveredLeads <= requestedLeads, and the fetch target *)
(* requestedLeads + 15 is at least requestedLeads and bounds the candidate *)
(* pool, whatever the listings and the vision providers return             *)
(***************************************************************************)
C1_DeliveredWithinRequested ==
    BatchSucceeded =>
        LET result == batch.result.value IN
        /\ result.deliveredLeads = Len(result.leads)
        /\ result.deliveredLeads <= result.requestedLeads
        /\ result.requestedLeads <= result.requestedLeads + BufferSize
        /\ result.requestedLeads + BufferSize = getBufferSize(batch.requestedLeads)
        /\ Len(batch.allProperties) <= getBufferSize(batch.requestedLeads)

\* the requested number is delivered while candidates of a full pool are
\* still unexamined
C1_Witness ==
    /\ BatchSucceeded
    /\ batch.result.value.deliveredLeads = batch.requestedLeads
    /\ Len(batch.allProperties) = getBufferSize(batch.requestedLeads)
    /\ batch.idx <= Len(batch.allProperties)

(***************************************************************************)
(* C2: getBatchLeads fails only for an invalid location, a category other  *)
(* than PoolLeadGen and BackyardBoost, a requested size outside 10, 25,    *)
(* 50, 100, or an empty candidate pool; with at least one candidate it     *)
(* returns a success result, however few candidates pass validation        *)
(***************************************************************************)
C2_FailsOnlyOnInputOrEmptyPool ==
    /\ batch.pc \in {"search", "verify"} => batch.result = NoCall
    /\ BatchDone =>
         IF Falsy(batch.location) \/ ~IsString(batch.location)
         THEN BatchFailed /\ batch.result.message = <<"Location is required">>
         ELSE IF batch.leadType \notin LeadTypes
         THEN BatchFailed
              /\ batch.result.message = <<"Lead type must be PoolLeadGen or BackyardBoost">>
         ELSE IF batch.requestedLeads \notin {10, 25, 50, 100}
         THEN BatchFailed
              /\ batch.result.message = <<"Requested leads must be 10, 25, 50, or 100">>
         ELSE IF Len(batch.allProperties) = 0
         THEN BatchFailed /\ batch.result.message = NoPropertiesMessage
         ELSE /\ BatchSucceeded
              /\ batch.result.value.success
              /\ batch.result.value.deliveredLeads <= batch.requestedLeads

\* a call whose candidates were all rejected, some of them because the
\* verification itself failed, still succeeds, with no lead
C2_Witness ==
    /\ BatchSucceeded
    /\ batch.result.value.deliveredLeads = 0
    /\ Len(batch.calls) > 0
    /\ \E i \in 1..Len(batch.invalidLeads) :
           batch.invalidLeads[i].reason \notin
               {<<"Missing coordinates">>, <<"Failed validation criteria">>}

(***************************************************************************)
(* C5: the leads delivered by getBatchLeads are the first (up to           *)
(* requestedLeads) candidates in discovery order that pass validation:     *)
(* the pool is in discovery order, leads is an order-preserving            *)
(* subsequence of it, and every candidate discovered before a delivered    *)
(* one is delivered too or was rejected                                    *)
(***************************************************************************)
\* the listings number the properties in discovery order: band order, then
\* position in the band's result
Rejected(id) == \E i \in 1..Len(batch.invalidLeads) : batch.invalidLeads[i].id = id
Delivered(id) ==
    \E i \in 1..Len(batch.result.value.leads) : batch.result.value.leads[i].id = id

C5_LeadsInDiscoveryOrder ==
    BatchSucceeded =>
        LET leads == batch.result.value.leads
            pool == batch.allProperties
            ids == {pool[i].id : i \in 1..Len(pool)}
        IN /\ \A i, j \in 1..Len(pool) : i < j => pool[i].id < pool[j].id
           /\ \A i \in 1..Len(leads) : leads[i].id \in ids
           /\ \A i, j \in 1..Len(leads) : i < j => leads[i].id < leads[j].id
           /\ \A i \in 1..Len(leads) :
                /\ isValidLead(leads[i], batch.leadType, leads[i].visualValidation)
                /\ \A id \in ids : id < leads[i].id => Delivered(id) \/ Rejected(id)
           /\ \A id \in ids : ~(Delivered(id) /\ Rejected(id))
           \* the examination stops at the requested number or at the end
           /\ \/ Len(leads) = batch.requestedLeads
              \/ \A id \in ids : Delivered(id) \/ Rejected(id)

\* leads were delivered around a rejected candidate
C5_Witness ==
    /\ BatchSucceeded
    /\ \E i \in 1..Len(batch.result.value.leads) :
           /\ i > 1
           /\ batch.result.value.leads[i].id > batch.result.value.leads[i - 1].id + 1
           /\ Rejected(batch.result.value.leads[i].id - 1)

(***************************************************************************)
(* C8: whichever stage wrote it (the batch validation, GET /search with    *)
(* visual validation, or POST /validate-visual), the value cached under    *)
(* the visual-validation key of a (latitude, longitude, category) is a     *)
(* ValidationRecord (leadType, satelliteImageUrl, analysis, timestamp)     *)
(***************************************************************************)
IsValidationRecord(v) ==
    DOMAIN v = {"leadType", "satelliteImageUrl", "analysis", "timestamp"}

C8_CachedValueIsValidationRecord ==
    \A key \in DOMAIN cache :
        key[1] = "visual-validation" => IsValidationRecord(cache[key].value)

(***************************************************************************)
(* C11: BackyardCheck, non-ideal case.  A surface-type entry is recorded   *)
(* in the discrepancy exactly when provider and vision both give a surface *)
(* type and the two differ; the discrepancy is then detected, and when no  *)
(* other mismatch exists its type is surface_type_mismatch and its         *)
(* severity is minor.                                                      *)
(***************************************************************************)
HasDetail(field) ==
    \E i \in 1..Len(report.discrepancy.details) :
        report.discrepancy.details[i].field = field

BothSurfacesDiffer ==
    /\ qin.zillowData.surface_type # U
    /\ QAnalysis.surface_type # U
    /\ qin.zillowData.surface_type # QAnalysis.surface_type

C11_SurfaceMismatchMinor ==
    (HasReport /\ BackyardNonIdeal) =>
        /\ BothSurfacesDiffer <=> HasDetail("surface_type")
        /\ BothSurfacesDiffer =>
             /\ report.discrepancy.detected
             /\ \E i \in 1..Len(report.discrepancy.details) :
                    /\ report.discrepancy.details[i].field = "surface_type"
                    /\ report.discrepancy.details[i].zillowValue = qin.zillowData.surface_type
                    /\ report.discrepancy.details[i].visualValue = QAnalysis.surface_type
             /\ HasDetail("estimated_free_area")
                  => report.discrepancy.type = "backyard_size_mismatch"
             /\ ~HasDetail("estimated_free_area")
                  => /\ report.discrepancy.type = "surface_type_mismatch"
                     /\ report.discrepancy.severity = "minor"

\* a surface mismatch on its own, at a confidence that would make a size
\* mismatch major
C11_Witness ==
    /\ HasReport
    /\ BackyardNonIdeal
    /\ BothSurfacesDiffer
    /\ ~HasDetail("estimated_free_area")
    /\ QAnalysis.confidence >= 90
    /\ report.discrepancy.type = "surface_type_mismatch"
    /\ report.discrepancy.severity = "minor"

(***************************************************************************)
(* C12: in every BackyardCheck evaluation in which vision reports          *)
(* is_underdeveloped = true and development_potential = high, the report   *)
(* has discrepancy.detected = false and qualityScore = high, whatever the  *)
(* confidence and the other provider and vision fields are.                *)
(***************************************************************************)
BackyardIdeal ==
    /\ qin.leadType = "BackyardBoost"
    /\ "analysis" \in DOMAIN qin.visualValidation
    /\ QAnalysis.is_underdeveloped = "true"
    /\ QAnalysis.development_potential = "high"

Bonus ==
    /\ qin.leadType = "BackyardBoost"
    /\ QAnalysis.is_underdeveloped = "true"
    /\ QAnalysis.development_potential = "high"

NoAnalysisGiven == "analysis" \notin DOMAIN qin.visualValidation

C14_NoAnalysisIsLow ==
    (HasReport /\ NoAnalysisGiven) =>
        /\ report.qualityScore = "low"
        /\ report.confidence = 0

(***************************************************************************)
(* C15: every report has a non-empty list of reasoning strings, for every  *)
(* combination of category, confidence, detected flag and severity,        *)
(* a detected discrepancy of severity none included.                       *)
(***************************************************************************)
C15_ReasoningNeverEmpty ==
    HasReport => Len(report.reasoning) >= 1

(***************************************************************************)
(* Specification of the recommendation mapping: one getRecommendation call *)
(* for every quality score and every discrepancy the comparison produces   *)
(***************************************************************************)
QualityScores == {"high", "medium", "low"}

RInit ==
    /\ \E i \in QualityInputs, q \in QualityScores :
          qin = [qualityScore |-> q,
                 discrepancy |->
                     compareZillowWithVisual(
                         i.zillowData,
                         IF "analysis" \in DOMAIN i.visualValidation
                         THEN i.visualValidation.analysis ELSE EmptyAnalysis,
                         i.leadType)]
    /\ report = NoReport
    /\ VIdle
    /\ BIdle

GetRecommendation ==
    /\ report = NoReport
    /\ report' = [recommendation |-> getRecommendation(qin.qualityScore, qin.discrepancy)]
    /\ UNCHANGED <<qin, vvars, bvars>>

RNext == GetRecommendation

SpecRecommend == RInit /\ [][RNext]_vars

Recommended == DOMAIN report = {"recommendation"}

(***************************************************************************)
(* C16: the recommendation is a function of the quality score and the      *)
(* discrepancy severity alone: high gives APPROVE; medium gives APPROVE    *)
(* unless the severity is major, then REVIEW; low gives REJECT.            *)
(***************************************************************************)
C16_RecommendationMapping ==
    Recommended =>
        report.recommendation =
            (IF qin.qualityScore = "high" THEN ApproveMsg
             ELSE IF qin.qualityScore = "low" THEN RejectMsg
             ELSE IF qin.discrepancy.severity = "major" THEN ReviewMsg
             ELSE ApproveMsg)

C16_Witness ==
    /\ Recommended
    /\ qin.qualityScore = "medium"
    /\ qin.discrepancy.severity = "major"
    /\ report.recommendation = ReviewMsg

(***************************************************************************)
(* C17: getBatchLeads called with a missing, empty or blank                *)
(* (whitespace-only) location fails with the location error before any    *)
(* listings search or vision call is issued.                               *)
(***************************************************************************)
MissingOrBlank(location) ==
    Falsy(location) \/ (IsString(location) /\ IsBlank(location))

C17_BlankLocationFailsFirst ==
    (batch.pc # "idle" /\ MissingOrBlank(batch.location)) =>
        /\ BatchFailed
        /\ batch.result.message = <<"Location is required">>
        /\ batch.searches = <<>>
        /\ batch.calls = <<>>

(***************************************************************************)
(* C18: a candidate is recorded as invalid for missing coordinates,        *)
(* without any vision call, exactly when its latitude or longitude is      *)
(* missing; a coordinate of value 0 is not missing.  Every lead collected  *)
(* has both coordinates.                                                   *)
(***************************************************************************)
CoordinateAbsent(property) ==
    property.latitude = NoNumber \/ property.longitude = NoNumber

SkippedForCoordinates(id) ==
    \E i \in 1..Len(batch.invalidLeads) :
        /\ batch.invalidLeads[i].id = id
        /\ batch.invalidLeads[i].reason = <<"Missing coordinates">>

C18_SkippedOnlyWhenMissing ==
    /\ \A i \in 1..Len(batch.allProperties) :
          LET property == batch.allProperties[i] IN
          /\ SkippedForCoordinates(property.id) => CoordinateAbsent(property)
          /\ (i < batch.idx /\ CoordinateAbsent(property))
                => SkippedForCoordinates(property.id)
          /\ SkippedForCoordinates(property.id)
                => \A k \in 1..Len(batch.calls) : batch.calls[k] # property.id
    /\ \A i \in 1..Len(batch.validLeads) : ~CoordinateAbsent(batch.validLeads[i])

(***************************************************************************)
(* Specification of the validity check of validateAndFilterLeads: one      *)
(* candidate whose validation, read from the cache or returned by the      *)
(* verifier, is any validation of either category at any confidence        *)
(***************************************************************************)
Candidate(zillowData) ==
    [f \in DOMAIN zillowData \cup {"id", "address", "latitude", "longitude"} |->
        IF f = "id" THEN 1
        ELSE IF f = "address" THEN <<"address of ", 1>>
        ELSE IF f = "latitude" THEN 33
        ELSE IF f = "longitude" THEN -112
        ELSE zillowData[f]]

LInit ==
    /\ qin \in QualityInputs
    /\ report = NoReport
    /\ batch = [BatchIdle EXCEPT !.pc = "verify", !.runs = 1,
                                 !.location = City,
                                 !.leadType = qin.leadType,
                                 !.requestedLeads = 10,
                                 !.band = Len(PRICE_RANGES) + 1,
                                 !.allProperties = <<Candidate(qin.zillowData)>>,
                                 !.idx = 1,
                                 !.calls = <<1>>]
    /\ world = NoCall
    /\ cache = EmptyCache
    /\ now = 0
    /\ rv = RouteIdle
    /\ sr = RouteIdle
    /\ sa = RouteIdle
    /\ ma = RouteIdle
    /\ es = RouteIdle
    /\ VIdle

\* lines 176-202 and the return of getBatchLeads
DecideCandidate ==
    /\ batch.pc = "verify"
    /\ batch' = RunValidation(Decide(batch, qin.visualValidation), cache, now)
    /\ UNCHANGED <<world, cache, now, rv, sr, sa, ma, es, qvars, vvars>>

LNext == DecideCandidate

SpecLead == LInit /\ [][LNext]_vars

(***************************************************************************)
(* C19: every lead delivered by getBatchLeads satisfies its category's     *)
(* validity predicate on the attached validation record (PoolLeadGen:      *)
(* has_pool = true and confidence >= 60; BackyardBoost: is_empty_backyard  *)
(* = false, confidence >= 60 and surface type not concrete) and carries a  *)
(* quality report with qualityScore, confidence, reasoning and             *)
(* recommendation.                                                         *)
(***************************************************************************)
CategoryPredicate(leadType, analysis) ==
    IF leadType = "PoolLeadGen"
    THEN analysis.has_pool = "true" /\ analysis.confidence >= 60
    ELSE /\ leadType = "BackyardBoost"
         /\ analysis.is_empty_backyard = "false"
         /\ analysis.confidence >= 60
         /\ analysis.surface_type # "concrete"

C19_DeliveredLeadsAreValid ==
    BatchSucceeded =>
        \A i \in 1..Len(batch.result.value.leads) :
            LET lead == batch.result.value.leads[i] IN
            /\ lead.leadType = batch.leadType
            /\ IsValidationRecord(lead.visualValidation)
            /\ CategoryPredicate(lead.leadType, lead.visualValidation.analysis)
            /\ {"qualityScore", "confidence", "reasoning", "recommendation"}
                    \subseteq DOMAIN lead.qualityReport
            /\ lead.qualityReport.qualityScore \in QualityScores
            /\ lead.qualityReport.confidence = lead.visualValidation.analysis.confidence
            /\ lead.qualityReport.recommendation \in {ApproveMsg, ReviewMsg, RejectMsg}

\* a backyard lead delivered at the confidence threshold
C19_Witness ==
    /\ BatchSucceeded
    /\ batch.leadType = "BackyardBoost"
    /\ Len(batch.result.value.leads) = 1
    /\ batch.result.value.leads[1].visualValidation.analysis.confidence = 60
    /\ batch.result.value.leads[1].qualityReport.leadId = 1

(***************************************************************************)
(* Specification of getBatchLeadsMultiple: one call over a list of         *)
(* categories, its getBatchLeads calls running one after the other over    *)
(* the listings and vision answers of the world                            *)
(***************************************************************************)
LeadTypeLists ==
    { <<>>,
      <<"PoolLeadGen", "BackyardBoost">>,
      <<"Other", "PoolLeadGen">>,
      <<"BackyardBoost", "BackyardBoost">> }

MultipleInputs ==
    {<<City, lts, 10>> : lts \in LeadTypeLists}
    \cup {<<City, <<"PoolLeadGen", "BackyardBoost">>, 5>>,
          <<NoLocation, <<"PoolLeadGen", "BackyardBoost">>, 10>>}

MNext ==
    \/ \E in \in MultipleInputs : MultipleStart(in[1], in[2], in[3])
    \/ BatchSearchReturn
    \/ \E env \in world.envs : BatchVerifyReturn(env)

SpecMultiple == BInit /\ [][MNext]_vars

MultipleCalled == batch.multi # NoCall
MultipleDone == MultipleCalled /\ batch.multi.done

\* the listings hold no candidate in any price range
NoListings ==
    \A b \in 1..Len(world.bands) : BandProperties(world.bands[b]) = <<>>

(***************************************************************************)
(* C20: getBatchLeadsMultiple never fails as a whole: it runs every        *)
(* requested category, its result holds for each of them either that      *)
(* category's batch result or an error entry (success = false with the     *)
(* error message), whether or not an earlier category failed, and the      *)
(* top-level success is true iff no category failed.                       *)
(***************************************************************************)
C20_MultipleCapturesFailures ==
    /\ (MultipleCalled /\ batch.pc = "done") => batch.multi.done
    /\ MultipleDone =>
         LET m == batch.multi
             v == m.value
             requested == {m.leadTypes[i] : i \in 1..Len(m.leadTypes)}
             Fails(lt) == \/ Falsy(m.location) \/ ~IsString(m.location)
                          \/ lt \notin LeadTypes
                          \/ m.requestedLeads \notin {10, 25, 50, 100}
                          \/ NoListings
         IN /\ m.k = Len(m.leadTypes)
            /\ DOMAIN v.results = requested
            /\ \A lt \in requested :
                 IF Fails(lt)
                 THEN /\ v.results[lt].success = FALSE
                      /\ v.results[lt].leadType = lt
                      /\ Len(v.results[lt].error) > 0
                 ELSE /\ v.results[lt].success = TRUE
                      /\ v.results[lt].leadType = lt
                      /\ v.results[lt].deliveredLeads = Len(v.results[lt].leads)
            /\ v.success <=> (\A lt \in requested : ~Fails(lt))

\* a category fails and the one after it still delivers leads
C20_Witness ==
    /\ MultipleDone
    /\ batch.multi.leadTypes = <<"Other", "PoolLeadGen">>
    /\ batch.multi.value.results["Other"].success = FALSE
    /\ batch.multi.value.results["PoolLeadGen"].success = TRUE
    /\ batch.multi.value.results["PoolLeadGen"].deliveredLeads > 0
    /\ batch.multi.value.success = FALSE

(***************************************************************************)
(* C21 as claimed: a verification requested with a latitude outside        *)
(* [-90, 90], a longitude outside [-180, 180] or a category other than the *)
(* two supported ones fails, and no vision provider is contacted for it.   *)
(***************************************************************************)
\* a coordinate pair that is numeric and outside the claimed ranges
CoordinatesOutOfRange(latitude, longitude) ==
    \/ latitude # NoNumber /\ (latitude < -90 \/ latitude > 90)
    \/ longitude # NoNumber /\ (longitude < -180 \/ longitude > 180)

C21_InvalidInputFails ==
    (VDone /\ (\/ CoordinatesOutOfRange(vin.latitude, vin.longitude)
               \/ vin.leadType \notin LeadTypes)) =>
        /\ ~vout.ok
        /\ \A i \in 1..Len(vout.trace) : ~vout.trace[i].contacted

(***************************************************************************)
(* C22 as claimed: the analysis of every successful verification has a     *)
(* confidence in 0..100 and, for BackyardBoost, an estimated free area, a  *)
(* development potential and a surface type of their fixed value sets,     *)
(* whatever the provider answered.                                         *)
(***************************************************************************)
\* the surfaces the prompt and the lead predicate name (part_003:582, 590;
\* batchLeadService.js:59)
SurfaceTypeValues == {"grass", "dirt", "paved", "mixed", "concrete"}

C22_AnalysisWithinSchema ==
    (VDone /\ vout.ok) =>
        LET analysis == vout.validation.analysis IN
        /\ analysis.confidence \in 0..100
        /\ vin.leadType = "BackyardBoost" =>
             /\ analysis.estimated_free_area \in FreeAreaValues
             /\ analysis.development_potential \in FreeAreaValues
             /\ analysis.surface_type \in SurfaceTypeValues

(***************************************************************************)
(* C23 as claimed: in every successful result of getBatchLeads,            *)
(* statistics.validationRate is the number of valid leads divided by the   *)
(* number of candidates the validation loop considered (those recorded as  *)
(* valid or as invalid), as a percentage, and 0% when none was considered. *)
(***************************************************************************)
\* the candidates the validation loop recorded as valid or as invalid
Considered == Len(batch.validLeads) + Len(batch.invalidLeads)

C23_RateOverConsidered ==
    BatchSucceeded =>
        batch.result.value.statistics.validationRate =
            IF Considered > 0 THEN Percent2(Len(batch.validLeads), Considered) ELSE 0

(***************************************************************************)
(* C24 as claimed: in every successful result of getBatchLeads,            *)
(* statistics.priceRangesSearched is the number of price ranges for which  *)
(* a search was issued during that call.                                   *)
(***************************************************************************)
C24_RangesSearchedCounted ==
    BatchSucceeded =>
        batch.result.value.statistics.priceRangesSearched = Len(batch.searches)

(***************************************************************************)
(* Specification of generateKey: the keys of two parameter objects under   *)
(* one prefix.  The objects are those of a market-analysis request         *)
(* (location, filters, analysisOptions) written in either order of their   *)
(* members, at the top level and inside filters                            *)
(***************************************************************************)
FilterObjects ==
    { <<>>,
      << <<"minPrice", NumberValue(1)>> >>,
      << <<"minPrice", NumberValue(1)>>, <<"maxPrice", NumberValue(5)>> >>,
      << <<"maxPrice", NumberValue(5)>>, <<"minPrice", NumberValue(1)>> >>,
      << <<"minPrice", NumberValue(2)>>, <<"maxPrice", NumberValue(5)>> >>,
      << <<"minPrice", StringValue("1")>> >> }

OptionObjects == { <<>>, << <<"downPaymentPercent", NumberValue(20)>> >> }

ParamObjects ==
    UNION { { << <<"location", StringValue(l)>>, <<"filters", ObjectValue(f)>>,
                 <<"analysisOptions", ObjectValue(o)>> >>,
              << <<"analysisOptions", ObjectValue(o)>>, <<"filters", ObjectValue(f)>>,
                 <<"location", StringValue(l)>> >> } :
            l \in {"Austin", "Reno"}, f \in FilterObjects, o \in OptionObjects }
    \cup { <<>>, << <<"location", StringValue("Austin")>> >> }

KInit ==
    /\ qin \in [prefix : {"market-analysis", "search"}, a : ParamObjects, b : ParamObjects]
    /\ report = NoReport
    /\ VIdle
    /\ BIdle

GenerateKeys ==
    /\ report = NoReport
    /\ report' = [a |-> generateKey(qin.prefix, KeyParams(qin.a)),
                  b |-> generateKey(qin.prefix, KeyParams(qin.b))]
    /\ UNCHANGED <<qin, vvars, bvars>>

KNext == GenerateKeys

SpecKey == KInit /\ [][KNext]_vars

KeysGenerated == DOMAIN report = {"a", "b"}

\* two values with the same content: equal scalars, or objects with the
\* same member names whose members have the same content
RECURSIVE SameContent(_, _)
SameContent(u, v) ==
    IF u.type = "object" /\ v.type = "object"
    THEN /\ ObjectKeys(u.entries) = ObjectKeys(v.entries)
         /\ \A n \in ObjectKeys(u.entries) :
               SameContent(Property(u.entries, n), Property(v.entries, n))
    ELSE u = v

(***************************************************************************)
(* C25 as claimed: generateKey gives two parameter objects with the same   *)
(* prefix and the same content (the same names and values, members that    *)
(* are objects included) the same key, whatever the order of the members.  *)
(***************************************************************************)
C25_SameContentSameKey ==
    (KeysGenerated /\ SameContent(ObjectValue(qin.a), ObjectValue(qin.b))) =>
        report.a = report.b

(***************************************************************************)
(* POST /market-analyzer (properties.js:1379-1435): requests served one    *)
(* after the other against the shared cache.  The figures of the analysis  *)
(* are left out; its result is the location and the number of properties   *)
(* analysed, or the failure of the listings search.                        *)
(***************************************************************************)
MarketAnalysisTtl == 21600

MaxMarketRuns == 2
MarketTickSeconds == 10800
MarketMaxTime == 32400

\* the request bodies: location, filters, analysisOptions
MarketInputs ==
    {[location |-> City, filters |-> f, analysisOptions |-> <<>>] :
        f \in { <<>>,
                << <<"minPrice", NumberValue(1)>>, <<"maxPrice", NumberValue(5)>> >>,
                << <<"maxPrice", NumberValue(5)>>, <<"minPrice", NumberValue(1)>> >> }}
    \cup {[location |-> Blank, filters |-> <<>>, analysisOptions |-> <<>>]}

\* cacheService.generateKey('market-analysis', { location, filters, analysisOptions })
MarketKey(body) ==
    generateKey("market-analysis",
                KeyParams(<< <<"location", StringValue(body.location.chars)>>,
                             <<"filters", ObjectValue(body.filters)>>,
                             <<"analysisOptions", ObjectValue(body.analysisOptions)>> >>))

\* marketAnalyzerService.analyzeMarketOpportunities over the listings
analyzeMarketOpportunities(location, listings) ==
    IF listings.kind = "error"
    THEN Fail(<<"Market analysis failed: ">> \o listings.message)
    ELSE [ok |-> TRUE,
          value |-> [location |-> location.chars,
                     totalPropertiesAnalyzed |-> Len(transformSearchResults(listings))]]

\* the requests answered so far by the route, oldest first
MarketLog == IF "log" \in DOMAIN ma THEN ma.log ELSE <<>>

\* the route answers: the request, when it was answered, whether the
\* analysis ran for it, and the response
MarketAnswer(body, analysed, response, t) ==
    [pc |-> "done", runs |-> ma.runs + (IF ma.pc = "analyze" THEN 0 ELSE 1),
     response |-> response,
     log |-> Append(MarketLog, [body |-> body, at |-> t, analysed |-> analysed,
                                response |-> response])]

\* POST /market-analyzer up to its await (properties.js:1379-1404)
MarketStart(body) ==
    /\ ma.pc \in {"idle", "done"}
    /\ ma.runs < MaxMarketRuns
    /\ \E e \in {SearchParamsError(body.location)} :
       \E cacheKey \in {MarketKey(body)} :
          ma' = IF e # ""
                THEN MarketAnswer(body, FALSE, [status |-> "error", message |-> <<e>>], now)
                ELSE IF CacheHit(cache, cacheKey, now)
                THEN MarketAnswer(body, FALSE,
                                  [status |-> 200, body |-> cacheGet(cache, cacheKey, now)],
                                  now)
                ELSE [pc |-> "analyze", runs |-> ma.runs + 1, response |-> NoCall,
                      log |-> MarketLog, body |-> body]
    /\ UNCHANGED <<world, cache, now, batch, rv, sr, sa, es, qvars, vvars>>

\* the analysis returns (properties.js:1406-1434)
MarketReturn ==
    /\ ma.pc = "analyze"
    /\ \E analysisResult \in {analyzeMarketOpportunities(ma.body.location, world.route)} :
          IF analysisResult.ok
          THEN \E response \in {[success |-> TRUE,
                                 data |-> analysisResult.value,
                                 metadata |-> [timestamp |-> now,
                                               source |-> "zillow-market-analyzer",
                                               cached |-> FALSE]]} :
                  /\ cache' = cacheSet(cache, MarketKey(ma.body), response,
                                       MarketAnalysisTtl, now)
                  /\ ma' = MarketAnswer(ma.body, TRUE, [status |-> 200, body |-> response],
                                        now)
          ELSE /\ cache' = cache
               /\ ma' = MarketAnswer(ma.body, TRUE,
                                     [status |-> "error",
                                      message |-> analysisResult.message], now)
    /\ UNCHANGED <<world, now, batch, rv, sr, sa, es, qvars, vvars>>

\* time passes between and during requests; the cache drops what has expired
MarketTick ==
    /\ now + MarketTickSeconds <= MarketMaxTime
    /\ now' = now + MarketTickSeconds
    /\ cache' = Sweep(cache, now + MarketTickSeconds)
    /\ UNCHANGED <<world, batch, rv, sr, sa, ma, es, qvars, vvars>>

MarketNext ==
    \/ \E body \in MarketInputs : MarketStart(body)
    \/ MarketReturn
    \/ MarketTick

SpecMarket == BInit /\ [][MarketNext]_vars

(***************************************************************************)
(* C27 as claimed: of two identical market-analyzer requests of which the  *)
(* second is made within the 6 hours for which the first one's response is *)
(* cached, the first response has metadata.cached = false and the second   *)
(* is served from the cache, without a new analysis, with                  *)
(* metadata.cached = true.                                                 *)
(***************************************************************************)
\* a 200 response: the one kind that carries a body
Answered200(response) == "body" \in DOMAIN response

\* request j repeats request i while the response of i is still cached
RepeatsWithinLifetime(i, j) ==
    /\ i < j
    /\ MarketLog[i].body = MarketLog[j].body
    /\ MarketLog[i].analysed
    /\ Answered200(MarketLog[i].response)
    /\ MarketLog[j].at <= MarketLog[i].at + MarketAnalysisTtl
    /\ \A k \in (i + 1)..(j - 1) : ~MarketLog[k].analysed

C27_SecondResponseSaysCached ==
    \A i, j \in 1..Len(MarketLog) :
        RepeatsWithinLifetime(i, j) =>
            /\ MarketLog[i].response.body.metadata.cached = FALSE
            /\ ~MarketLog[j].analysed
            /\ Answered200(MarketLog[j].response)
            /\ MarketLog[j].response.body.metadata.cached = TRUE

(***************************************************************************)
(* POST /search-and-analyze-pool and POST /search-and-analyze-backyard     *)
(* (properties.js:809-1040) with their helpers analyzePoolProperty and     *)
(* analyzeBackyardProperty (l.379-476, l.592-689) and the ResponseFormatter*)
(* (leadQualityService.js:388-589)                                         *)
(***************************************************************************)
AnalysisTtl == 86400

toLowerCase(leadType) ==
    IF leadType = "PoolLeadGen" THEN "poolleadgen"
    ELSE IF leadType = "BackyardBoost" THEN "backyardboost" ELSE leadType

\* calculateLeadScore (leadQualityService.js:453-474)
calculateLeadScore(qualityReport) ==
    LET base == IF qualityReport.qualityScore = "high" THEN 85
                ELSE IF qualityReport.qualityScore = "medium" THEN 65
                ELSE IF qualityReport.qualityScore = "low" THEN 35 ELSE 50
        rounded == (2 * base * qualityReport.confidence + 100) \div 200
        score == IF qualityReport.discrepancy.detected
                 THEN (IF rounded - 15 < 0 THEN 0 ELSE rounded - 15)
                 ELSE rounded
    IN IF score > 100 THEN 100 ELSE IF score < 0 THEN 0 ELSE score

\* formatLead; the vision confidence is kept in hundredths
formatLead(analysisResult, leadType) ==
    LET analysis == analysisResult.visualValidation.analysis IN
    [address |-> analysisResult.address,
     coordinates |-> [lat |-> analysisResult.latitude, lng |-> analysisResult.longitude],
     zpid |-> analysisResult.zpid,
     imagery |-> [image_url |-> analysisResult.visualValidation.satelliteImageUrl],
     vision |-> IF leadType = "PoolLeadGen"
                THEN [pool_present |-> analysis.has_pool,
                      pool_type |-> analysis.pool_type,
                      confidence |-> analysis.confidence]
                ELSE [empty_backyard |-> analysis.is_empty_backyard,
                      surface_type |-> analysis.surface_type,
                      free_area |-> analysis.estimated_free_area,
                      confidence |-> analysis.confidence],
     lead_score |-> calculateLeadScore(analysisResult.qualityReport),
     quality_report |-> [score |-> analysisResult.qualityReport.qualityScore,
                         confidence |-> analysisResult.qualityReport.confidence,
                         recommendation |-> analysisResult.qualityReport.recommendation]]

\* the file name of the export: lead type in lower case, "_leads_", the date
CsvFilename(leadType, t) == <<toLowerCase(leadType), "_leads_", t, ".csv">>

\* formatBatchResponse, with success set by the route; the export is
\* the header line and one line for each lead
formatBatchResponse(leads, location, leadType, t) ==
    [success |-> TRUE,
     location |-> location,
     count |-> Len(leads),
     leads |-> leads,
     csv |-> [filename |-> CsvFilename(leadType, t), lines |-> 1 + Len(leads)],
     metadata |-> [timestamp |-> t, leadType |-> leadType, exportFormat |-> "csv"]]

\* the answer to a search without properties, or without a property that
\* has coordinates (properties.js:843-852, 862-871)
NoLeadsResponse(location, leadType, t) ==
    [success |-> TRUE,
     location |-> location,
     count |-> 0,
     leads |-> <<>>,
     csv |-> [filename |-> CsvFilename(leadType, t), lines |-> 1]]

\* the parameter checks of analyzePoolProperty / analyzeBackyardProperty;
\* "" when they pass
AnalyzeParamsError(zpidType, property, leadType) ==
    IF zpidType # "string"
    THEN "ZPID parameter is required and must be a non-empty string"
    ELSE IF VisualParamsError(property.latitude, property.longitude, leadType) # ""
    THEN VisualParamsError(property.latitude, property.longitude, leadType)
    ELSE IF property.address = <<>>
    THEN "Address parameter is required and must be a non-empty string"
    ELSE ""

AnalysisKey(property, leadType) ==
    generateKey(IF leadType = "PoolLeadGen" THEN "pool-analysis" ELSE "backyard-analysis",
                [zpid |-> Str(property.id), latitude |-> Num(property.latitude),
                 longitude |-> Num(property.longitude)])

\* the analysisResult of a verified property (properties.js:647-672)
AnalysisResult(property, validation, leadType) ==
    LET qualityReport == generateQualityReport(property.id, property, validation, leadType)
    IN [zpid |-> property.id,
        address |-> property.address,
        latitude |-> property.latitude,
        longitude |-> property.longitude,
        visualValidation |-> validation,
        qualityReport |-> [qualityScore |-> qualityReport.qualityScore,
                           confidence |-> qualityReport.confidence,
                           reasoning |-> qualityReport.reasoning,
                           recommendation |-> qualityReport.recommendation,
                           discrepancy |-> qualityReport.discrepancy,
                           flagged |-> "flag" \in DOMAIN qualityReport]]

\* the cached form of an analysisResult (properties.js:675-685)
EnrichedResponse(analysisResult, leadType, t) ==
    [success |-> TRUE,
     data |-> analysisResult,
     metadata |-> [timestamp |-> t, source |-> "zillow-visual-inspector",
                   cached |-> FALSE, analysisType |-> leadType]]

\* a listings provider for the analyze routes: its search result, the
\* answers of the vision providers and the JavaScript type of its zpids
AnalyzeWorld(route, answers, zpidType) ==
    [cfg |-> AllCredentials, bands |-> <<>>, route |-> route,
     envs |-> {Env(a) : a \in answers}, zpidType |-> zpidType]

AnalyzeWorlds ==
    { AnalyzeWorld(RouteListing, {AnswerA, AnswerB}, "string"),
      AnalyzeWorld(RouteListing, {AnswerA, AnswerError}, "string"),
      AnalyzeWorld(RouteListing, {AnswerA}, "number"),
      AnalyzeWorld(SearchOk("props", <<>>), {AnswerA}, "string"),
      AnalyzeWorld(SearchOk("props", <<5>>), {AnswerA}, "string"),
      AnalyzeWorld(SearchError, {AnswerA}, "string") }

\* lead type of the route, location, count
AnalyzeInputs ==
    {<<lt, City, count>> : lt \in LeadTypes, count \in {NoNumber, 1}}
    \cup {<<"PoolLeadGen", Blank, NoNumber>>}

AInit ==
    /\ world \in AnalyzeWorlds
    /\ cache = EmptyCache
    /\ now = 0
    /\ batch = BatchIdle
    /\ rv = RouteIdle
    /\ sr = RouteIdle
    /\ sa = RouteIdle
    /\ ma = RouteIdle
    /\ es = RouteIdle
    /\ QIdle
    /\ VIdle

\* the route up to its await of the listings search (properties.js:809-836)
AnalyzeStart(leadType, location, count) ==
    /\ sa.pc \in {"idle", "done"}
    /\ sa.runs < MaxRuns
    /\ \E e \in {SearchParamsError(location)} :
          sa' = IF e # ""
                THEN [pc |-> "done", runs |-> sa.runs + 1,
                      response |-> [status |-> "error", message |-> <<e>>],
                      location |-> location, leadType |-> leadType]
                ELSE [pc |-> "search", runs |-> sa.runs + 1, response |-> NoCall,
                      location |-> location, leadType |-> leadType, count |-> count]
    /\ UNCHANGED <<world, cache, now, batch, rv, sr, ma, es, qvars, vvars>>

\* Step 3 of the route: the successful results are formatted and sent
AnalyzeFinish(r, t) ==
    LET successfulResults == SelectSeq(r.results, LAMBDA x : x # NoCall)
        formattedLeads == [i \in 1..Len(successfulResults) |->
                              formatLead(successfulResults[i], r.leadType)]
    IN [pc |-> "done", runs |-> r.runs,
        response |-> [status |-> 200,
                      body |-> formatBatchResponse(formattedLeads, r.location.chars,
                                                   r.leadType, t)],
        location |-> r.location, leadType |-> r.leadType]

\* the listings search returns; every property to analyse runs up to its
\* own await inside Promise.all (properties.js:838-897)
AnalyzeSearchReturn ==
    /\ sa.pc = "search"
    /\ \E response \in {world.route} :
       \E properties \in {IF response.kind = "error" THEN <<>>
                          ELSE transformSearchResults(response)} :
       \E propertiesWithCoords \in {SelectSeq(properties, HasCoordinates)} :
       \E propertiesToAnalyze \in
              {IF sa.count # NoNumber /\ sa.count > 0 /\ sa.count < Len(propertiesWithCoords)
               THEN SubSeq(propertiesWithCoords, 1, sa.count)
               ELSE propertiesWithCoords} :
       \E started \in {[i \in 1..Len(propertiesToAnalyze) |->
                LET property == propertiesToAnalyze[i]
                    cacheKey == AnalysisKey(property, sa.leadType)
                IN IF AnalyzeParamsError(world.zpidType, property, sa.leadType) # ""
                   THEN [pending |-> FALSE, result |-> NoCall]
                   ELSE IF CacheHit(cache, cacheKey, now)
                   THEN [pending |-> FALSE, result |-> cacheGet(cache, cacheKey, now).data]
                   ELSE [pending |-> TRUE, result |-> NoCall]]} :
       \E r \in {[pc |-> "analyze", runs |-> sa.runs, response |-> NoCall,
                  location |-> sa.location, leadType |-> sa.leadType,
                  properties |-> propertiesToAnalyze,
                  results |-> [i \in 1..Len(started) |-> started[i].result],
                  pending |-> {i \in 1..Len(started) : started[i].pending}]} :
          sa' = IF response.kind = "error"
                THEN [pc |-> "done", runs |-> sa.runs,
                      response |-> [status |-> "error", message |-> response.message],
                      location |-> sa.location, leadType |-> sa.leadType]
                ELSE IF Len(propertiesWithCoords) = 0
                THEN [pc |-> "done", runs |-> sa.runs,
                      response |-> [status |-> 200,
                                    body |-> NoLeadsResponse(sa.location.chars,
                                                             sa.leadType, now)],
                      location |-> sa.location, leadType |-> sa.leadType]
                ELSE IF r.pending = {} THEN AnalyzeFinish(r, now)
                ELSE r
    /\ UNCHANGED <<world, cache, now, batch, rv, sr, ma, es, qvars, vvars>>

\* the verification of property i returns inside its analyze helper
\* (properties.js:631-688); a failure is caught and counts as null
AnalyzeVerifyReturn(i, env) ==
    /\ sa.pc = "analyze"
    /\ i \in sa.pending
    /\ \E property \in {sa.properties[i]} :
       \E v \in {verify_property_visually(world.cfg, property.latitude, property.longitude,
                                          sa.leadType, env, now)} :
       \E analysisResult \in {IF v.ok
                              THEN AnalysisResult(property, v.validation, sa.leadType)
                              ELSE NoCall} :
       \E c \in {IF v.ok
                 THEN cacheSet(cache, AnalysisKey(property, sa.leadType),
                               EnrichedResponse(analysisResult, sa.leadType, now),
                               AnalysisTtl, now)
                 ELSE cache} :
       \E r \in {[sa EXCEPT !.pending = @ \ {i}, !.results[i] = analysisResult]} :
          /\ cache' = c
          /\ sa' = IF r.pending = {} THEN AnalyzeFinish(r, now) ELSE r
    /\ UNCHANGED <<world, now, batch, rv, sr, ma, es, qvars, vvars>>

ANext ==
    \/ \E in \in AnalyzeInputs : AnalyzeStart(in[1], in[2], in[3])
    \/ AnalyzeSearchReturn
    \/ \E i \in 1..MaxRouteResults, env \in world.envs : AnalyzeVerifyReturn(i, env)
    \/ Tick

SpecAnalyze == AInit /\ [][ANext]_vars

(***************************************************************************)
(* C26 as claimed: the search-and-analyze routes, given a valid location   *)
(* the listings search succeeds on, obtain their leads from getBatchLeads  *)
(* and answer 200 with success = true, the location echoed, count equal to *)
(* the number of leads, an export whose file name holds the lead type, and *)
(* metadata.statistics holding the statistics of the batch.                *)
(***************************************************************************)
AnalyzeAnswered == sa.pc = "done" /\ Answered200(sa.response)

C26_AnalyzeAnswersFromBatch ==
    AnalyzeAnswered =>
        LET body == sa.response.body IN
        /\ body.success
        /\ body.location = sa.location.chars
        /\ body.count = Len(body.leads)
        /\ body.csv.filename[1] = toLowerCase(sa.leadType)
        /\ batch.pc = "done"
        /\ "metadata" \in DOMAIN body
        /\ "statistics" \in DOMAIN body.metadata
        /\ body.metadata.statistics = batch.result.value.statistics

(***************************************************************************)
(* C28: once requestedLeads valid leads have been accumulated, no cache    *)
(* lookup and no vision verification is performed for any later candidate; *)
(* the candidates examined always form a prefix of the discovery order.    *)
(***************************************************************************)
\* the ids of the first k candidates of the pool
PoolPrefix(k) == {batch.allProperties[i].id : i \in 1..k}

\* the candidates the validation loop has taken up so far
Examined ==
    {batch.validLeads[i].id : i \in 1..Len(batch.validLeads)}
    \cup {batch.invalidLeads[i].id : i \in 1..Len(batch.invalidLeads)}
    \cup (IF batch.pc = "verify" THEN {batch.allProperties[batch.idx].id} ELSE {})

C28_ExaminedIsPrefix ==
    (batch.pc = "verify" \/ BatchSucceeded) =>
        LET k == Cardinality(Examined)
            n == Len(batch.validLeads)
        IN /\ k <= Len(batch.allProperties)
           /\ Examined = PoolPrefix(k)
           /\ \A i \in 1..Len(batch.lookups) : batch.lookups[i] \in PoolPrefix(k)
           /\ \A i \in 1..Len(batch.calls) : batch.calls[i] \in PoolPrefix(k)
           /\ n <= batch.requestedLeads
           /\ batch.pc = "verify" => n < batch.requestedLeads
           \* the requested number reached: the last candidate examined is
           \* the one that became the last lead
           /\ (BatchSucceeded /\ n = batch.requestedLeads) =>
                 batch.allProperties[k].id = batch.validLeads[n].id

\* the loop stopped at the requested number before candidates that have
\* coordinates and would have been looked up
C28_Witness ==
    /\ BatchSucceeded
    /\ Len(batch.validLeads) = batch.requestedLeads
    /\ \E i \in (Cardinality(Examined) + 1)..Len(batch.allProperties) :
           ~MissingCoordinates(batch.allProperties[i])
    /\ Len(batch.lookups) > Len(batch.calls)
    /\ Len(batch.calls) > 0

(***************************************************************************)
(* Specification of the validation cache across batches: calls of          *)
(* getBatchLeadsMultiple, whose categories are batches run one after the   *)
(* other against the same cache, while time passes                         *)
(***************************************************************************)
CNext ==
    \/ \E in \in MultipleInputs : MultipleStart(in[1], in[2], in[3])
    \/ BatchSearchReturn
    \/ \E env \in world.envs : BatchVerifyReturn(env)
    \/ Tick

SpecCache == BInit /\ [][CNext]_vars

(***************************************************************************)
(* C29: during batch validation the vision verifier is called for a        *)
(* candidate if and only if the cache holds no unexpired entry under the   *)
(* key of (latitude, longitude, category); after a successful call the     *)
(* validation record is stored under that key for 1800 s.  So a later      *)
(* candidate with the same coordinates and category, of the same or of a   *)
(* later batch, causes no call before the expiry, and causes one after it. *)
(***************************************************************************)
\* the entries of log after those it had before this step
Added(before, after) ==
    IF Len(before) <= Len(after) /\ SubSeq(after, 1, Len(before)) = before
    THEN {after[i] : i \in (Len(before) + 1)..Len(after)}
    ELSE {after[i] : i \in 1..Len(after)}

CandidateKey(b, id) ==
    LET property == b.allProperties[CHOOSE i \in 1..Len(b.allProperties) :
                                        b.allProperties[i].id = id]
    IN VisualValidationKey(property.latitude, property.longitude, b.leadType)

\* the verification this step returned from succeeded: its candidate was
\* decided on, as a lead or as failing the criteria
VerifiedNow(old, new) ==
    /\ old.pc = "verify"
    /\ LET id == old.allProperties[old.idx].id IN
       \/ \E i \in 1..Len(new.validLeads) : new.validLeads[i].id = id
       \/ \E i \in 1..Len(new.invalidLeads) :
             /\ new.invalidLeads[i].id = id
             /\ new.invalidLeads[i].reason = <<"Failed validation criteria">>

C29_CalledIffNotCached ==
    [][ batch' # batch =>
          \* every candidate looked up in this step is sent to the verifier
          \* exactly when the cache has no unexpired entry for it
          /\ \A id \in Added(batch.lookups, batch'.lookups) :
                (id \in Added(batch.calls, batch'.calls))
                    <=> ~(/\ CandidateKey(batch', id) \in DOMAIN cache'
                          /\ now' <= cache'[CandidateKey(batch', id)].expires)
          /\ Added(batch.calls, batch'.calls) \subseteq Added(batch.lookups, batch'.lookups)
          \* a verification that succeeded has left its record in the cache
          /\ (VerifiedNow(batch, batch') /\ batch'.allProperties = batch.allProperties) =>
                LET key == CandidateKey(batch, batch.allProperties[batch.idx].id) IN
                /\ key \in DOMAIN cache'
                /\ cache'[key].expires = now + VisualValidationTtl
                /\ IsValidationRecord(cache'[key].value)
      ]_vars

\* two candidates with the same coordinates were both sent to the verifier
\* in one batch, the second one after the entry of the first had expired,
\* and a third candidate was served from the cache
C29_Witness ==
    /\ BatchDone
    /\ Len(batch.calls) > 1
    /\ \E i, j \in 1..Len(batch.calls) :
          /\ i < j
          /\ CandidateKey(batch, batch.calls[i]) = CandidateKey(batch, batch.calls[j])
          /\ \E k \in 1..Len(batch.validLeads) : batch.validLeads[k].id = batch.calls[i]
    /\ \E i \in 1..Len(batch.lookups) :
          \A j \in 1..Len(batch.calls) : batch.calls[j] # batch.lookups[i]

(***************************************************************************)
(* C30: one batch issues at most min(ceil((requestedLeads + 15) / 20), 4)  *)
(* price-band searches, always the leading bands of the ascending list of  *)
(* 4 bands; no band beyond that count is searched, whatever the earlier    *)
(* bands returned.                                                         *)
(***************************************************************************)
CeilDiv(a, b) == (a + b - 1) \div b

RangesNeeded(requestedLeads) ==
    LET needed == CeilDiv(getBufferSize(requestedLeads), 20)
    IN IF needed < 4 THEN needed ELSE 4

\* the searches issued so far are for the bands 1, 2, ..., in that order
LeadingBands(searches) == \A i \in 1..Len(searches) : searches[i] = i

C30_SearchesWithinNeeded ==
    batch.pc # "idle" =>
        /\ Len(batch.searches) <= RangesNeeded(batch.requestedLeads)
        /\ LeadingBands(batch.searches)

(***************************************************************************)
(* C31: price bands are searched in ascending order, no band search is     *)
(* issued once the deduplicated candidate pool has reached the fetch       *)
(* target requestedLeads + 15, and the pool handed to validation never     *)
(* holds more than the fetch target.                                       *)
(***************************************************************************)
Ascending(searches) ==
    \A i, j \in 1..Len(searches) : i < j => searches[i] < searches[j]

C31_SearchStopsAtTarget ==
    batch.pc \in {"search", "verify", "done"} =>
        /\ Ascending(batch.searches)
        /\ batch.pc = "search" =>
              Len(batch.allProperties) < getBufferSize(batch.requestedLeads)
        /\ Len(batch.allProperties) <= getBufferSize(batch.requestedLeads)

\* the pool reached the fetch target with price ranges left unsearched and
\* went to validation
C31_Witness ==
    /\ batch.pc = "verify"
    /\ Len(batch.allProperties) = getBufferSize(batch.requestedLeads)
    /\ Len(batch.searches) > 1
    /\ Len(batch.searches) < Len(PRICE_RANGES)

(***************************************************************************)
(* C32: a failure of one band's search contributes zero candidates for     *)
(* that band and nothing else: the following bands are still searched in   *)
(* order, the candidates already collected are kept, and the batch does    *)
(* not fail because of it as long as some band yields a candidate.         *)
(***************************************************************************)
Yields(band) == BandProperties(world.bands[band]) # <<>>

SearchFailedNow ==
    /\ batch.pc = "search"
    /\ batch' # batch
    /\ world.bands[batch.band].kind = "error"

C32_BandFailureIsLocal ==
    [][ /\ SearchFailedNow =>
            /\ batch'.allProperties = batch.allProperties
            /\ batch.band < Len(PRICE_RANGES) =>
                  /\ batch'.pc = "search"
                  /\ batch'.searches = Append(batch.searches, batch.band + 1)
            /\ batch.band = Len(PRICE_RANGES) => batch'.pc # "search"
        /\ (batch'.pc = "done" /\ batch'.multi = NoCall /\ batch'.result # NoCall
                /\ \E i \in 1..Len(batch'.searches) : Yields(batch'.searches[i]))
              => batch'.result.ok
      ]_vars

\* a batch that delivered although the second price range failed after the
\* first had yielded candidates, and ranges after it were searched
C32_Witness ==
    /\ BatchDone /\ batch.multi = NoCall /\ batch.result # NoCall
    /\ batch.result.ok
    /\ \E i, j, k \in 1..Len(batch.searches) :
          /\ i < j /\ j < k
          /\ Yields(batch.searches[i])
          /\ world.bands[batch.searches[j]].kind = "error"
          /\ Yields(batch.searches[k])

(***************************************************************************)
(* C33: the candidate pool never contains two candidates with the same     *)
(* property identifier: when an identifier is returned again by the same   *)
(* or a later band, only its first occurrence in discovery order is kept.  *)
(***************************************************************************)
\* the identifiers the searched ranges returned, in the order of discovery
RECURSIVE Discovered(_, _)
Discovered(searches, n) ==
    IF n = 0 THEN <<>>
    ELSE LET properties == BandProperties(world.bands[searches[n]])
         IN Discovered(searches, n - 1) \o [i \in 1..Len(properties) |-> properties[i].id]

\* ids without every occurrence of an identifier after its first
RECURSIVE FirstOccurrences(_)
FirstOccurrences(ids) ==
    IF ids = <<>> THEN <<>>
    ELSE LET front == FirstOccurrences(SubSeq(ids, 1, Len(ids) - 1))
             last == ids[Len(ids)]
         IN IF \E i \in 1..Len(front) : front[i] = last THEN front
            ELSE Append(front, last)

IsPrefix(p, q) == Len(p) <= Len(q) /\ SubSeq(q, 1, Len(p)) = p

\* the ranges whose answers are in the pool: all those searched, but the
\* one whose search is outstanding
Answered(b) ==
    IF b.pc = "search" THEN SubSeq(b.searches, 1, Len(b.searches) - 1) ELSE b.searches

C33_PoolHasFirstOccurrences ==
    batch.pc \in {"search", "verify", "done"} =>
        /\ \A i, j \in 1..Len(batch.allProperties) :
              batch.allProperties[i].id = batch.allProperties[j].id => i = j
        /\ IsPrefix([i \in 1..Len(batch.allProperties) |-> batch.allProperties[i].id],
                    FirstOccurrences(Discovered(Answered(batch), Len(Answered(batch)))))

\* a later range returned an identifier the pool already held
\* and a range had returned an identifier twice
C33_Witness ==
    /\ batch.pc = "verify"
    /\ LET ids == Discovered(batch.searches, Len(batch.searches))
       IN /\ Len(batch.allProperties) = Len(FirstOccurrences(ids))
          /\ \E n \in 1..Len(batch.searches) :
                /\ n > 1
                /\ \E i \in 1..Len(Discovered(batch.searches, n - 1)) :
                   \E j \in (Len(Discovered(batch.searches, n - 1)) + 1)
                                ..Len(Discovered(batch.searches, n)) : ids[i] = ids[j]
          /\ \E n \in 1..Len(batch.searches) :
                LET own == Discovered(<<batch.searches[n]>>, 1)
                IN \E i, j \in 1..Len(own) : i < j /\ own[i] = own[j]

(***************************************************************************)
(* C34: a per-candidate failure (missing coordinates, an image or vision   *)
(* verification error including all providers failing, or the validity     *)
(* predicate not met) records exactly one invalid entry with a reason for  *)
(* that candidate, never aborts the batch, and validation continues with   *)
(* the next candidate in discovery order.                                  *)
(***************************************************************************)
\* listings of five properties, one without coordinates, whose
\* verifications succeed, fail at the providers or fail at the image
FailureWorld ==
    [World(0, 0, "data", RouteListing, {AnswerA, AnswerB, AnswerError})
        EXCEPT !.bands[1] = SearchOk("data", <<1, 2, 3, 4, 6>>),
               !.envs = @ \cup {[Env(AnswerA) EXCEPT !.image = "down"]}]

FInit ==
    /\ world \in Worlds \cup {FailureWorld}
    /\ cache = EmptyCache
    /\ now = 0
    /\ batch = BatchIdle
    /\ rv = RouteIdle
    /\ sr = RouteIdle
    /\ sa = RouteIdle
    /\ ma = RouteIdle
    /\ es = RouteIdle
    /\ QIdle
    /\ VIdle

\* getBatchLeads alone: its searches and its verifications
FNext ==
    \/ \E in \in BatchInputs : BatchStart(in[1], in[2], in[3])
    \/ BatchSearchReturn
    \/ \E env \in world.envs : BatchVerifyReturn(env)

SpecFailures == FInit /\ [][FNext]_vars

VerificationFailedPrefix == "Visual property verification failed: "

EntriesOf(leads, id) == {i \in 1..Len(leads) : leads[i].id = id}

\* the position of the candidate id in the pool
PoolIndex(id) ==
    CHOOSE i \in 1..Len(batch.allProperties) : batch.allProperties[i].id = id

ReasonFits(property, reason) ==
    /\ reason # <<>>
    /\ \/ reason = <<"Missing coordinates">>
       \/ reason = <<"Failed validation criteria">>
       \/ reason[1] = VerificationFailedPrefix
    /\ MissingCoordinates(property) <=> reason = <<"Missing coordinates">>

C34_CandidateFailureIsLocal ==
    (batch.pc \in {"verify", "done"} /\ batch.idx >= 1) =>
        \* every candidate taken up and decided on is a lead or has exactly
        \* one invalid entry, never both
        /\ \A i \in 1..(batch.idx - 1) :
              LET property == batch.allProperties[i]
                  asLead == Cardinality(EntriesOf(batch.validLeads, property.id))
                  asInvalid == Cardinality(EntriesOf(batch.invalidLeads, property.id))
              IN /\ asLead + asInvalid = 1
                 /\ MissingCoordinates(property) => asInvalid = 1
        /\ Len(batch.validLeads) + Len(batch.invalidLeads) = batch.idx - 1
        /\ \A i \in 1..Len(batch.invalidLeads) :
              ReasonFits(batch.allProperties[PoolIndex(batch.invalidLeads[i].id)],
                         batch.invalidLeads[i].reason)
        \* the entries follow the discovery order
        /\ \A i, j \in 1..Len(batch.invalidLeads) :
              i < j => PoolIndex(batch.invalidLeads[i].id) < PoolIndex(batch.invalidLeads[j].id)
        \* the batch is not aborted: the loop ran to its end or to the
        \* requested number, and the batch succeeded
        /\ (batch.pc = "done" /\ batch.multi = NoCall) =>
              /\ batch.result # NoCall
              /\ batch.result.ok
              /\ LoopStops(batch)

\* one batch with a candidate without coordinates, one failing at the
\* image, one failing at all providers and one failing the criteria, and a
\* lead found after them
C34_Witness ==
    /\ BatchDone /\ batch.multi = NoCall /\ batch.result # NoCall
    /\ batch.result.ok
    /\ \E a, b, c, d \in 1..Len(batch.invalidLeads) :
          /\ batch.invalidLeads[a].reason = <<"Missing coordinates">>
          /\ batch.invalidLeads[b].reason = <<"Failed validation criteria">>
          /\ Len(batch.invalidLeads[c].reason) > 2
          /\ batch.invalidLeads[c].reason[2] = "Failed to fetch satellite image: "
          /\ Len(batch.invalidLeads[d].reason) > 2
          /\ batch.invalidLeads[d].reason[2] = AllProvidersPrefix
          /\ \E k \in 1..Len(batch.validLeads) :
                \A x \in {a, b, c, d} :
                    PoolIndex(batch.invalidLeads[x].id) < PoolIndex(batch.validLeads[k].id)

(***************************************************************************)
(* C35: when several analyses that share a visual-validation cache key run *)
(* concurrently (properties processed in parallel within one request, or   *)
(* overlapping requests), at most one vision verification is issued for    *)
(* that key while no entry has expired: the check-then-store on the cache  *)
(* is not split by an interleaving of another task.                        *)
(***************************************************************************)
\* the verifications that have been issued and have not returned, each
\* with the cache key its task looked up before issuing it
Outstanding ==
    (IF sr.pc = "verify"
     THEN {<<"search", i, VisualValidationKey(sr.properties[i].latitude,
                                              sr.properties[i].longitude,
                                              sr.includeVisualValidation)>> :
             i \in sr.pending}
     ELSE {})
    \cup (IF rv.pc = "verify"
          THEN {<<"validate-visual", 0,
                  VisualValidationKey(rv.latitude, rv.longitude, rv.lead_type)>>}
          ELSE {})
    \cup (IF batch.pc = "verify"
          THEN {<<"batch", batch.idx,
                  CandidateKey(batch, batch.allProperties[batch.idx].id)>>}
          ELSE {})

C35_OneVerificationPerKey ==
    \A v, w \in Outstanding : v[3] = w[3] => v = w

(***************************************************************************)
(* C36: within one verification each vision provider is attempted at most  *)
(* once, in every configuration of provider credentials (including a       *)
(* missing primary credential).                                            *)
(***************************************************************************)
AttemptsOf(trace, provider) == {i \in 1..Len(trace) : trace[i].provider = provider}

C36_EachProviderOnce ==
    vout # NoCall =>
        \A provider \in {"OpenAI", "Groq", "Gemini"} :
            Cardinality(AttemptsOf(vout.trace, provider)) <= 1

(***************************************************************************)
(* C37: a verification that fails (image retrieval error or all providers  *)
(* failing) leaves the cache unchanged: the cache only ever holds records  *)
(* of successful verifications, so the same coordinates are verified again *)
(* the next time they are requested.                                       *)
(***************************************************************************)
\* the verification this step returned from failed: its candidate was
\* recorded with the error of the verifier
FailedNow(old, new) ==
    /\ old.pc = "verify"
    /\ \E i \in 1..Len(new.invalidLeads) :
          /\ new.invalidLeads[i].id = old.allProperties[old.idx].id
          /\ new.invalidLeads[i].reason[1] = VerificationFailedPrefix

C37_FailureLeavesCache ==
    [][ (batch.pc = "verify" /\ batch' # batch) =>
          LET key == CandidateKey(batch, batch.allProperties[batch.idx].id) IN
          /\ FailedNow(batch, batch') =>
                /\ cache' = cache
                /\ key \notin DOMAIN cache'
                \* the candidates with these coordinates taken up next are
                \* sent to the verifier
                /\ \A id \in Added(batch.lookups, batch'.lookups) :
                      CandidateKey(batch', id) = key
                          => id \in Added(batch.calls, batch'.calls)
          \* an entry appears only for a verification that succeeded
          /\ \A k \in DOMAIN cache' :
                (k \notin DOMAIN cache \/ cache'[k] # cache[k]) =>
                    /\ k = key
                    /\ ~FailedNow(batch, batch')
                    /\ IsValidationRecord(cache'[k].value)
      ]_vars

\* a candidate failed at the verifier and a later one with the same
\* coordinates was sent to the verifier again
C37_Witness ==
    /\ batch.pc \in {"verify", "done"}
    /\ \E i, j \in 1..Len(batch.calls) :
          /\ i < j
          /\ CandidateKey(batch, batch.calls[i]) = CandidateKey(batch, batch.calls[j])
          /\ \E k \in 1..Len(batch.invalidLeads) :
                /\ batch.invalidLeads[k].id = batch.calls[i]
                /\ batch.invalidLeads[k].reason[1] = VerificationFailedPrefix
                /\ Len(batch.invalidLeads[k].reason) > 2
                /\ batch.invalidLeads[k].reason[2] = "Failed to fetch satellite image: "

(***************************************************************************)
(* C38: in a PoolLeadGen batch a delivered lead has qualityScore high only *)
(* if its provider record asserts has_pool = true: every delivered lead    *)
(* whose provider record does not assert a pool carries a detected         *)
(* pool_mismatch, and with vision confidence >= 80 it is delivered with    *)
(* qualityScore low, recommendation REJECT and a flag (delivery does not   *)
(* depend on the recommendation).                                          *)
(***************************************************************************)
AssertsPool(lead) == lead.has_pool = "true"

C38_PoolLeadQuality ==
    (/\ BatchDone /\ batch.result # NoCall /\ batch.leadType = "PoolLeadGen"
     /\ batch.result.ok) =>
           \A i \in 1..Len(batch.result.value.leads) :
              LET lead == batch.result.value.leads[i]
                  qualityReport == lead.qualityReport
              IN /\ qualityReport.qualityScore = "high" => AssertsPool(lead)
                 /\ ~AssertsPool(lead) =>
                       /\ qualityReport.discrepancy.detected
                       /\ qualityReport.discrepancy.type = "pool_mismatch"
                       /\ lead.visualValidation.analysis.confidence >= 80 =>
                             /\ qualityReport.qualityScore = "low"
                             /\ qualityReport.recommendation = RejectMsg
                             /\ "flag" \in DOMAIN qualityReport

\* a lead delivered although its report rejects it: the provider record
\* lists no pool and the verifier saw one with confidence 80 or more
C38_Witness ==
    /\ BatchDone /\ batch.result # NoCall /\ batch.leadType = "PoolLeadGen"
    /\ batch.result.ok
    /\ Len(batch.result.value.leads) = 1
    /\ ~AssertsPool(batch.result.value.leads[1])
    /\ batch.result.value.leads[1].visualValidation.analysis.confidence >= 80
    /\ batch.result.value.leads[1].qualityReport.recommendation = RejectMsg

(***************************************************************************)
(* C39: no report produced by generateQualityReport has a REVIEW           *)
(* recommendation: a major discrepancy always forces qualityScore low, so  *)
(* the medium-with-major branch of the recommendation mapping is           *)
(* unreachable and every report is either APPROVE or REJECT.               *)
(***************************************************************************)
C39_NoReportReviews ==
    HasReport =>
        /\ report.recommendation \in {ApproveMsg, RejectMsg}
        /\ report.recommendation # ReviewMsg
        /\ (report.discrepancy.detected /\ report.discrepancy.severity = "major") =>
              /\ report.qualityScore = "low"
              /\ report.recommendation = RejectMsg

\* a pool report with a major discrepancy: low and REJECT, not REVIEW
C39_Witness ==
    /\ HasReport
    /\ qin.leadType = "PoolLeadGen"
    /\ report.discrepancy.detected
    /\ report.discrepancy.severity = "major"
    /\ report.qualityScore = "low"
    /\ report.recommendation = RejectMsg

(***************************************************************************)
(* ExpandedSearchService (IMPLEMENTATION_STATUS.md:384-676): a search that *)
(* is repeated with wider filters, and in nearby locations, until enough   *)
(* quality leads are found.  A location string is held as the sequence of  *)
(* its comma-separated, trimmed parts.                                     *)
(***************************************************************************)
ExpandedSearchTtl == 3600
maxAttempts == 3
MaxExpandRuns == 2

Max(a, b) == IF a > b THEN a ELSE b

FilterNames == {"minPrice", "maxPrice", "minBedrooms", "maxBedrooms"}

\* lines 547-579; a filter that is absent or 0 is falsy and left alone
expandSearchFilters(filters, attempt) ==
    IF attempt = 2
    THEN [f \in DOMAIN filters |->
            IF filters[f] = 0 THEN 0
            ELSE IF f = "minPrice" THEN Max(0, filters[f] - 50000)
            ELSE IF f = "maxPrice" THEN filters[f] + 100000
            ELSE IF f = "minBedrooms" THEN Max(1, filters[f] - 1)
            ELSE IF f = "maxBedrooms" THEN filters[f] + 2
            ELSE filters[f]]
    ELSE IF attempt = 3
    THEN [f \in DOMAIN filters \ FilterNames |-> filters[f]]
    ELSE filters

\* lines 591-602
nearbyMap ==
    ("Miami" :> <<"Miami Beach", "Coral Gables", "Hialeah", "Doral", "Aventura">>)
    @@ ("New York" :> <<"Brooklyn", "Queens", "Bronx", "Manhattan", "Staten Island">>)
    @@ ("Los Angeles" :> <<"Santa Monica", "Pasadena", "Long Beach", "Glendale", "Burbank">>)
    @@ ("Chicago" :> <<"Evanston", "Oak Park", "Cicero", "Arlington Heights", "Naperville">>)
    @@ ("Houston" :> <<"Spring", "The Woodlands", "Pearland", "Sugar Land", "Katy">>)
    @@ ("Phoenix" :> <<"Scottsdale", "Tempe", "Mesa", "Chandler", "Gilbert">>)
    @@ ("Philadelphia" :> <<"Camden", "Cherry Hill", "Bensalem", "Cheltenham", "Norriton">>)
    @@ ("San Antonio" :> <<"New Braunfels", "Boerne", "Schertz", "Cibolo", "Universal City">>)
    @@ ("San Diego" :> <<"La Jolla", "Coronado", "Chula Vista", "Oceanside", "Carlsbad">>)
    @@ ("Dallas" :> <<"Arlington", "Irving", "Plano", "Frisco", "McKinney">>)

\* lines 586-614
getNearbyLocations(location) ==
    LET parts == location
        city == parts[1]
        state == parts[Len(parts)]
    IN IF city \in DOMAIN nearbyMap
       THEN [i \in 1..Len(nearbyMap[city]) |-> <<nearbyMap[city][i], state>>]
       ELSE <<>>

\* the predicate of filterQualityLeads (lines 516-538)
IsQualityLead(property, leadType) ==
    /\ "qualityReport" \in DOMAIN property
    /\ LET qualityScore == property.qualityReport.qualityScore
           confidence == NumOr0(property.qualityReport.confidence)
       IN IF leadType = "BackyardBoost"
          THEN \/ qualityScore = "high" /\ confidence >= 70
               \/ qualityScore = "medium" /\ confidence >= 60
          ELSE IF leadType = "PoolLeadGen"
          THEN \/ qualityScore = "high" /\ confidence >= 75
               \/ qualityScore = "medium" /\ confidence >= 70
          ELSE FALSE

filterQualityLeads(properties, leadType) ==
    SelectSeq(properties, LAMBDA property : IsQualityLead(property, leadType))

\* line 480: { location, leadType, ...filters }
ExpandedSearchKey(location, leadType, filters) ==
    generateKey("expanded-search",
        [f \in {"location", "leadType"} \cup DOMAIN filters |->
            IF f = "location" THEN Str(location)
            ELSE IF f = "leadType" THEN Str(leadType)
            ELSE Num(filters[f])])

\* lines 431-433, 455-457: the results whose id allResults does not hold
NewResults(allResults, results) ==
    SelectSeq(results, LAMBDA newProp : newProp.id \notin Ids(allResults))

\* the return value (lines 463-468)
ExpandedResult(e) ==
    [allResults |-> e.allResults,
     qualityLeads |-> filterQualityLeads(e.allResults, e.leadType),
     searchAttempts |-> e.searchAttempt,
     success |-> Len(filterQualityLeads(e.allResults, e.leadType)) > 0]

\* searchWithExpansion from the position e.at up to the next search that
\* the cache does not answer, or up to its return
RECURSIVE RunExpansion(_, _, _)
RunExpansion(e, c, t) ==
    LET qualityLeads == filterQualityLeads(e.allResults, e.leadType)
        cacheKey == ExpandedSearchKey(e.query[1], e.leadType, e.query[2])
    IN
    IF e.at = "performSearch"
    THEN \* lines 478-487
         LET called == [e EXCEPT !.performed = Append(@, e.query)] IN
         IF CacheHit(c, cacheKey, t)
         THEN RunExpansion([called EXCEPT !.at = "results",
                                          !.incoming = cacheGet(c, cacheKey, t)], c, t)
         ELSE [called EXCEPT !.pc = "search"]
    ELSE IF e.at = "results"
    THEN \* lines 414-415, 431-436, 455-460
         RunExpansion([e EXCEPT
                         !.allResults = IF e.step = 1 THEN e.incoming
                                        ELSE @ \o NewResults(@, e.incoming),
                         !.at = IF e.step = 3 THEN "for" ELSE "while"], c, t)
    ELSE IF e.at = "while"
    THEN \* lines 420-428
         IF Len(qualityLeads) < e.minQualityLeads /\ e.searchAttempt < maxAttempts
         THEN RunExpansion([e EXCEPT
                              !.searchAttempt = @ + 1,
                              !.query = <<e.location,
                                          expandSearchFilters(e.filters, e.searchAttempt + 1)>>,
                              !.step = 2,
                              !.at = "performSearch"], c, t)
         ELSE RunExpansion([e EXCEPT !.at = "if"], c, t)
    ELSE IF e.at = "if"
    THEN \* lines 442-446
         IF Len(qualityLeads) < e.minQualityLeads /\ e.searchAttempt < maxAttempts
         THEN RunExpansion([e EXCEPT
                              !.searchAttempt = @ + 1,
                              !.nearbyLocations = getNearbyLocations(e.location),
                              !.k = 1,
                              !.at = "for"], c, t)
         ELSE RunExpansion([e EXCEPT !.at = "return"], c, t)
    ELSE IF e.at = "for"
    THEN \* lines 448-453
         IF e.k > Len(e.nearbyLocations) \/ Len(qualityLeads) >= e.minQualityLeads
         THEN RunExpansion([e EXCEPT !.at = "return"], c, t)
         ELSE RunExpansion([e EXCEPT
                              !.query = <<e.nearbyLocations[e.k], e.filters>>,
                              !.k = @ + 1,
                              !.step = 3,
                              !.at = "performSearch"], c, t)
    ELSE [e EXCEPT !.pc = "done", !.response = ExpandedResult(e)]

\* what the listings provider holds for a location: the properties in a
\* narrow price range, in a wide one, and all of them
CityListing(narrow, wide, all) == [narrow |-> narrow, wide |-> wide, all |-> all]

\* the answer of the listings provider to a search
ExpandListing(w, location, filters) ==
    IF location \in w.failing THEN SearchError
    ELSE IF location \notin DOMAIN w.cities THEN SearchOk("props", <<>>)
    ELSE SearchOk("props",
            IF "minPrice" \notin DOMAIN filters /\ "maxPrice" \notin DOMAIN filters
            THEN w.cities[location].all
            ELSE IF "maxPrice" \in DOMAIN filters /\ filters.maxPrice > 500000
            THEN w.cities[location].wide
            ELSE w.cities[location].narrow)

Phoenix == <<"Phoenix", "AZ">>
Scottsdale == <<"Scottsdale", "AZ">>

ExpandWorlds ==
    { [failing |-> {},
       cities |-> (Phoenix :> CityListing(<<1>>, <<1, 2>>, <<1, 2, 3>>))
                  @@ (Scottsdale :> CityListing(<<6>>, <<6, 7>>, <<6, 7>>))],
      [failing |-> {Phoenix},
       cities |-> (Scottsdale :> CityListing(<<6>>, <<6>>, <<6>>))],
      [failing |-> {},
       cities |-> (<<"Miami">> :> CityListing(<<>>, <<>>, <<1>>))] }

NoFilters == [f \in {} |-> 0]

ExpandInputs ==
    {<<location, leadType, filters, minQualityLeads>> :
        location \in {Phoenix, <<"Mesa", "AZ">>, <<"Miami">>},
        leadType \in LeadTypes,
        filters \in {NoFilters,
                     [minPrice |-> 200000, maxPrice |-> 450000],
                     [minPrice |-> 30000, minBedrooms |-> 1, maxBedrooms |-> 4]},
        minQualityLeads \in {0, 1, 5}}

EInit ==
    /\ world \in ExpandWorlds
    /\ cache = EmptyCache
    /\ now = 0
    /\ batch = BatchIdle
    /\ rv = RouteIdle
    /\ sr = RouteIdle
    /\ sa = RouteIdle
    /\ ma = RouteIdle
    /\ es = RouteIdle
    /\ QIdle
    /\ VIdle

\* a call of searchWithExpansion up to its first await (lines 403-413)
ExpandStart(location, leadType, filters, minQualityLeads) ==
    /\ es.pc \in {"idle", "done"}
    /\ es.runs < MaxExpandRuns
    /\ \E e \in {[pc |-> "run", runs |-> es.runs + 1, response |-> NoCall,
                  location |-> location, leadType |-> leadType, filters |-> filters,
                  minQualityLeads |-> minQualityLeads,
                  allResults |-> <<>>, searchAttempt |-> 1,
                  step |-> 1, at |-> "performSearch",
                  query |-> <<location, filters>>, incoming |-> <<>>,
                  nearbyLocations |-> <<>>, k |-> 0, performed |-> <<>>]} :
       \E e1 \in {RunExpansion(e, cache, now)} :
          es' = e1
    /\ UNCHANGED <<world, cache, now, batch, rv, sr, sa, ma, qvars, vvars>>

\* the search of performSearch returns (lines 489-506)
ExpandSearchReturn ==
    /\ es.pc = "search"
    /\ \E rawResults \in {ExpandListing(world, es.query[1], es.query[2])} :
       \E properties \in {IF rawResults.kind = "error" THEN <<>>
                          ELSE transformSearchResults(rawResults)} :
       \E c \in {IF rawResults.kind = "error" THEN cache
                 ELSE cacheSet(cache,
                               ExpandedSearchKey(es.query[1], es.leadType, es.query[2]),
                               properties, ExpandedSearchTtl, now)} :
       \E e1 \in {RunExpansion([es EXCEPT !.pc = "run", !.incoming = properties,
                                          !.at = "results"], c, now)} :
          /\ cache' = c
          /\ es' = e1
    /\ UNCHANGED <<world, now, batch, rv, sr, sa, ma, qvars, vvars>>

ENext ==
    \/ \E in \in ExpandInputs : ExpandStart(in[1], in[2], in[3], in[4])
    \/ ExpandSearchReturn

SpecExpand == EInit /\ [][ENext]_vars

(***************************************************************************)
(* C40: searchWithExpansion: when, after the filter-expansion attempts,    *)
(* there are still fewer than minQualityLeads quality leads, the nearby    *)
(* locations of the requested city are searched (step 3) until enough      *)
(* quality leads are found or the nearby locations are exhausted; the      *)
(* operation always terminates with searchAttempts <= 3.                   *)
(***************************************************************************)
SearchedLocations(e) == {e.performed[i][1] : i \in 1..Len(e.performed)}

C40_NearbySearchedWhenShort ==
    es.pc = "done" =>
        /\ es.response.searchAttempts <= 3
        /\ Len(es.response.qualityLeads) < es.minQualityLeads =>
              \A i \in 1..Len(getNearbyLocations(es.location)) :
                  getNearbyLocations(es.location)[i] \in SearchedLocations(es)

====
